---- MODULE Spec2Model ----
(***************************************************************************)
(* TAZReview: the two Bokeh dashboards my_app.py and viztaz_app.py as one   *)
(* state machine.  The variable app says which of the two programs is      *)
(* running; both keep the same named data sources, so they share the       *)
(* variables.                                                               *)
(*                                                                         *)
(* Geometry is modelled on an integer lattice: a polygon is the finite set *)
(* of lattice points it covers, intersects() is "shares a point" (so       *)
(* touching counts), unary_union is set union.  A MultiPolygon is a        *)
(* sequence of such parts.  A GeoDataFrame is [cols, rows]; a              *)
(* ColumnDataSource is the sequence of its rows.  Strings that the code    *)
(* parses or builds (the search text, str(id)) are sequences of            *)
(* one-character strings.                                                  *)
(***************************************************************************)
EXTENDS Integers, Sequences, FiniteSets, TLC

VARIABLES
    app,                     \* "my_app" or "viztaz_app": the program that runs
    text_input,              \* text_input.value
    search_status,           \* search_status.text / search_label.text
    old_taz_source, new_taz_source, blocks_source,
    old_taz_blocks_source, new_taz_blocks_source,
    combined_old_source, combined_new_source, combined_blocks_source,
    new_sel,                 \* new_taz_source.selected.indices
    blocks_sel,              \* blocks_source.selected.indices
    new_taz_table_source, blocks_table_source,
    new_taz_sum_div, blocks_sum_div,
    global_new_web,          \* global_new_web / global_new_gdf
    global_blocks_web,       \* global_blocks_web / global_blocks_gdf
    ranges,                  \* panel -> x_range/y_range start and end
    old_taz_buffer_source, old_taz_neighbors_source,
    old_taz_text_source, new_taz_text_source,
    raised,                  \* the exception the last handler ended with
    event,                   \* the event whose handler ran last
    pans,                    \* number of user pan/zoom gestures so far
    call,                    \* a call of a decomposition helper: arguments and result
    crs,                     \* the reference frame each shapefile is in
    extra_taz_input,         \* extra_taz_input.value (viztaz_app)
    extra_old_taz_source, extra_old_taz_text_source

layerVars  == <<old_taz_source, new_taz_source, blocks_source>>
mirrorVars == <<old_taz_blocks_source, new_taz_blocks_source, combined_old_source,
                combined_new_source, combined_blocks_source>>
poolVars   == <<global_new_web, global_blocks_web>>
vizVars    == <<old_taz_buffer_source, old_taz_neighbors_source,
                old_taz_text_source, new_taz_text_source>>
newAggVars    == <<new_taz_table_source, new_taz_sum_div>>
blocksAggVars == <<blocks_table_source, blocks_sum_div>>
appVars == <<app, text_input, search_status, layerVars, mirrorVars, new_sel, blocks_sel,
             newAggVars, blocksAggVars, poolVars, ranges, vizVars, raised, event, pans,
             crs>>
extraVars == <<extra_taz_input, extra_old_taz_source, extra_old_taz_text_source>>
vars == <<appVars, call, extraVars>>

-----------------------------------------------------------------------------
(* Bounds of the model *)

\* selection events carry indices in 0..MaxIndex
MaxIndex == 1
\* user pan/zoom gestures in one run
MaxPans == 1
\* records in a frame handed to a decomposition helper
MaxRecords == 3

-----------------------------------------------------------------------------
(* Program constants *)

\* viztaz_app.filter_old_taz: buffer_radius = 1000
buffer_radius == 1000
\* on_search_click / run_search: the pad for a degenerate bounding box
DegeneratePad == 1000
\* the margin is 0.05 * dx = MarginNum * dx / MarginDen
MarginNum == 5
MarginDen == 100
\* one lattice step in display (EPSG:3857) units
LatticeUnit == 1000

Cols19 == {"HH19", "PERSNS19", "WORKRS19", "EMP19"}
Cols49 == {"HH49", "PERSNS49", "WORKRS49", "EMP49"}
FmtFields == {"HH19", "EMP19", "HH49", "EMP49"}
Panels == {"p_old", "p_new", "p_combined", "p_blocks"}
\* the panels the model's user pans or zooms by hand
PanPanels == {"p_old"}

\* the columns the tables and the decomposition of the selectable layers ask for
EnsureCols(a) == IF a = "my_app" THEN Cols19 ELSE Cols19 \cup Cols49

-----------------------------------------------------------------------------
(* Values *)

IntV(n)  == [k |-> "int", v |-> n]
NoneV    == [k |-> "none", v |-> 0]
NaNV     == [k |-> "nan", v |-> 0]
\* isinstance(val, (int, float)): a NaN is a float
IsNumber(val) == val.k \in {"int", "nan"}

\* s + val in Python arithmetic: anything plus NaN is NaN
Plus(s, val) == IF s.k = "nan" \/ val.k = "nan" THEN NaNV ELSE IntV(s.v + val.v)

Digits == <<"0", "1", "2", "3", "4", "5", "6", "7", "8", "9">>
IsDigit(c) == \E i \in 1..10 : Digits[i] = c
DigitVal(c) == (CHOOSE i \in 1..10 : Digits[i] = c) - 1

\* str(n) for a non-negative integer
RECURSIVE StrNat(_)
StrNat(n) == IF n < 10 THEN <<Digits[n + 1]>>
             ELSE Append(StrNat(n \div 10), Digits[(n % 10) + 1])

IntId(n) == [k |-> "int", v |-> n, s |-> <<>>]
StrId(s) == [k |-> "str", v |-> 0, s |-> s]
\* faulty variant: only the first character of the identifier is kept
Str_first(id) == IF id.k = "int" THEN <<Head(StrNat(id.v))>> ELSE <<Head(id.s)>>

\* str(row[id_field])
Str(id) == IF id.k = "int" THEN StrNat(id.v) ELSE id.s

\* val.strip()
RECURSIVE LStrip(_)
LStrip(s) == IF s # <<>> /\ Head(s) = " " THEN LStrip(Tail(s)) ELSE s
RECURSIVE RStrip(_)
RStrip(s) == IF s # <<>> /\ s[Len(s)] = " " THEN RStrip(SubSeq(s, 1, Len(s) - 1)) ELSE s
Strip(s) == RStrip(LStrip(s))

\* int(val) on a stripped text: a value, or ValueError
RECURSIVE DigitsValue(_)
DigitsValue(s) == IF s = <<>> THEN 0
                  ELSE 10 * DigitsValue(SubSeq(s, 1, Len(s) - 1)) + DigitVal(s[Len(s)])
ParseInt(s) == IF s # <<>> /\ \A i \in 1..Len(s) : IsDigit(s[i])
               THEN [ok |-> TRUE, v |-> DigitsValue(s)]
               ELSE [ok |-> FALSE, v |-> 0]

-----------------------------------------------------------------------------
(* Geometry and the shapefiles *)

Pt(x, y) == <<x, y>>
Box(x0, x1, y0, y1) == {Pt(x, y) : x \in x0..x1, y \in y0..y1}

RECURSIVE SeqUnion(_)
SeqUnion(parts) == IF parts = <<>> THEN {} ELSE Head(parts) \cup SeqUnion(Tail(parts))

\* the point set of one record's geometry
Geom(r) == SeqUnion(r.parts)

Poly(id, pts, attrs) == [id |-> id, gtype |-> "Polygon", parts |-> <<pts>>, attrs |-> attrs]
Multi(id, parts, attrs) == [id |-> id, gtype |-> "MultiPolygon", parts |-> parts, attrs |-> attrs]

NoAttrs == [c \in {} |-> NoneV]
A8(hh, pe, wo, em) == [c \in Cols19 \cup Cols49 |->
    CASE c = "HH19" -> hh [] c = "PERSNS19" -> pe [] c = "WORKRS19" -> wo [] c = "EMP19" -> em
      [] c = "HH49" -> Plus(hh, IntV(1)) [] c = "PERSNS49" -> Plus(pe, IntV(1))
      [] c = "WORKRS49" -> Plus(wo, IntV(1)) [] OTHER -> Plus(em, IntV(1))]
BlockCols == {"HH19", "PERSNS19", "EMP19"}
A3(hh, pe, em) == [c \in BlockCols |->
    CASE c = "HH19" -> hh [] c = "PERSNS19" -> pe [] OTHER -> em]

\* the three shapefiles after remove_zero_geoms and the renaming of columns,
\* in the frame they are read in
shp_old_taz == [crs |-> "EPSG:4326", cols |-> {}, rows |-> <<
    Poly(IntId(1), Box(0, 2, 0, 2), NoAttrs),
    Poly(IntId(2), Box(3, 6, 0, 2), NoAttrs),
    Multi(IntId(3), <<Box(8, 8, 0, 0), Box(9, 9, 0, 0)>>, NoAttrs) >>]

shp_new_taz == [crs |-> "EPSG:4326", cols |-> Cols19 \cup Cols49, rows |-> <<
    Multi(IntId(8), <<Box(2, 3, 1, 1), Box(2, 3, 2, 2)>>, A8(IntV(3), NaNV, IntV(1), IntV(2))),
    Poly(IntId(7), Box(0, 1, 0, 1), A8(IntV(10), IntV(20), IntV(5), IntV(7))),
    Poly(IntId(9), Box(4, 5, 0, 1), A8(IntV(4), IntV(8), IntV(2), IntV(0))),
    Poly(IntId(10), Box(6, 7, 2, 2), A8(IntV(6), IntV(9), IntV(3), IntV(1))),
    Poly(IntId(11), Box(8, 9, 1, 1), A8(IntV(2), IntV(2), IntV(2), IntV(2))) >>]

shp_blocks == [crs |-> "EPSG:4326", cols |-> BlockCols, rows |-> <<
    Multi(StrId(<<"b", "3">>), <<Box(2, 2, 1, 1), Box(2, 2, 2, 2)>>, A3(IntV(4), NaNV, IntV(0))),
    Poly(StrId(<<"b", "1">>), Box(0, 0, 0, 0), A3(IntV(1), IntV(2), IntV(3))),
    Poly(StrId(<<"b", "2">>), Box(1, 1, 1, 1), A3(IntV(2), IntV(3), IntV(1))),
    Poly(StrId(<<"b", "4">>), Box(3, 3, 0, 0), A3(IntV(1), IntV(1), IntV(1))),
    Poly(StrId(<<"b", "5">>), Box(5, 5, 1, 1), A3(IntV(5), IntV(6), IntV(2))),
    Poly(StrId(<<"b", "6">>), Box(6, 6, 2, 2), A3(IntV(0), IntV(0), IntV(4))),
    Poly(StrId(<<"b", "7">>), Box(8, 8, 1, 1), A3(IntV(7), IntV(1), IntV(1))),
    Poly(StrId(<<"b", "8">>), Box(9, 9, 0, 0), A3(IntV(3), IntV(3), IntV(3))) >>]

\* the reference frames a shapefile may be in.  The coordinates of a place in
\* EPSG:4326 are its lattice point; in EPSG:26986, another planar frame, they
\* are that point moved by FrameShift along x
FileFrames == {"EPSG:4326", "EPSG:26986"}
FrameShift == 2
InFrame(frame, p) == IF frame = "EPSG:26986" THEN Pt(p[1] + FrameShift, p[2]) ELSE p
FromFrame(frame, p) == IF frame = "EPSG:26986" THEN Pt(p[1] - FrameShift, p[2]) ELSE p
MoveRecord(r, frame) ==
    [r EXCEPT !.parts = [i \in 1..Len(r.parts) |-> {InFrame(frame, p) : p \in r.parts[i]}]]
\* gpd.read_file of a shapefile whose .prj names the frame
read_file(shp, frame) ==
    [shp EXCEPT !.crs = frame,
                !.rows = [i \in 1..Len(shp.rows) |-> MoveRecord(shp.rows[i], frame)]]

\* to_crs(epsg=3857): the reprojection from the frame the collection is
\* tagged with, here a scaling of the lattice
Proj(p) == Pt(LatticeUnit * p[1], LatticeUnit * p[2])
ProjRecord(r, frame) ==
    [r EXCEPT !.parts = [i \in 1..Len(r.parts) |->
                            {Proj(FromFrame(frame, p)) : p \in r.parts[i]}]]
latlon_to_web_mercator(gdf) ==
    [gdf EXCEPT !.crs = "EPSG:3857",
                !.rows = [i \in 1..Len(gdf.rows) |-> ProjRecord(gdf.rows[i], gdf.crs)]]

\* the frames the three shapefiles are in
SameFrames == [f \in {"old", "new", "blocks"} |-> "EPSG:4326"]

\* the module-level frames of each program, for shapefiles in the frames tags:
\* my_app keeps the frame of each file, viztaz_app converts all three to
\* EPSG:3857 at load
Loaded(a, tags) ==
    LET old    == read_file(shp_old_taz, tags.old)
        new    == read_file(shp_new_taz, tags.new)
        blocks == read_file(shp_blocks, tags.blocks)
    IN  IF a = "my_app" THEN [old |-> old, new |-> new, blocks |-> blocks]
        ELSE [old    |-> latlon_to_web_mercator(old),
              new    |-> latlon_to_web_mercator(new),
              blocks |-> latlon_to_web_mercator(blocks)]

\* faulty variant: the first record that intersects is lost
Intersecting_drop_first(gdf, region) ==
    LET Hit(r) == Geom(r) \cap region # {}
        hits   == SelectSeq(gdf.rows, Hit)
    IN  [gdf EXCEPT !.rows = IF hits = <<>> THEN hits ELSE Tail(hits)]

\* faulty variant: an empty region filters nothing out
Intersecting_empty_all(gdf, region) ==
    LET Hit(r) == region = {} \/ Geom(r) \cap region # {}
    IN  [gdf EXCEPT !.rows = SelectSeq(gdf.rows, Hit)]

\* gdf[gdf.intersects(region)]
Intersecting(gdf, region) ==
    LET Hit(r) == Geom(r) \cap region # {}
    IN  [gdf EXCEPT !.rows = SelectSeq(gdf.rows, Hit)]

\* faulty variant: <= in place of ==
WithTazId_at_most(gdf, n) ==
    LET Same(r) == r.id.k = "int" /\ r.id.v <= n
    IN  [gdf EXCEPT !.rows = SelectSeq(gdf.rows, Same)]

\* gdf[gdf['taz_id'] == old_taz_id]
WithTazId(gdf, n) ==
    LET Same(r) == r.id.k = "int" /\ r.id.v = n
    IN  [gdf EXCEPT !.rows = SelectSeq(gdf.rows, Same)]

\* gdf.unary_union
RECURSIVE UnaryUnion(_)
UnaryUnion(rows) == IF rows = <<>> THEN {} ELSE Geom(Head(rows)) \cup UnaryUnion(Tail(rows))

\* geometry.centroid, kept exact as (sum of x, sum of y, number of points)
RECURSIVE SumCoord(_, _)
SumCoord(pts, i) == IF pts = {} THEN 0
                    ELSE LET p == CHOOSE q \in pts : TRUE
                         IN  p[i] + SumCoord(pts \ {p}, i)
Centroid(pts) == [sx |-> SumCoord(pts, 1), sy |-> SumCoord(pts, 2), n |-> Cardinality(pts)]

\* centroid.buffer(radius): p lies in the disc
InBuffer(p, c, radius) ==
    LET dx == c.n * p[1] - c.sx
        dy == c.n * p[2] - c.sy
        r  == c.n * radius
    IN  /\ dx \in -r..r
        /\ dy \in -r..r
        /\ dx * dx + dy * dy <= r * r

\* gdf[gdf.intersects(buffer_geom)]
IntersectingBuffer(gdf, c, radius) ==
    LET Hit(r) == \E p \in Geom(r) : InBuffer(p, c, radius)
    IN  [gdf EXCEPT !.rows = SelectSeq(gdf.rows, Hit)]

NoneGdf == [some |-> FALSE, cols |-> {}, rows |-> <<>>]
Some(gdf) == [some |-> TRUE, cols |-> gdf.cols, rows |-> gdf.rows]

-----------------------------------------------------------------------------
(* Helper functions of the two programs *)

\* the rows one record contributes: one per part of a MultiPolygon, one for a
\* Polygon, none for a missing or empty geometry or any other geometry type
RecordRows(r, cols, ensure_cols) ==
    LET row_attrs == [c \in ensure_cols |-> IF c \in cols THEN r.attrs[c] ELSE NoneV]
        Row(part) == [ring |-> part, id |-> Str(r.id), attrs |-> row_attrs]
    IN  IF r.gtype = "None" \/ Geom(r) = {} THEN <<>>
        ELSE IF r.gtype = "MultiPolygon" THEN [i \in 1..Len(r.parts) |-> Row(r.parts[i])]
        ELSE IF r.gtype = "Polygon" THEN <<Row(r.parts[1])>>
        ELSE <<>>

RECURSIVE IterRows(_, _, _)
IterRows(rows, cols, ensure_cols) ==
    IF rows = <<>> THEN <<>>
    ELSE RecordRows(Head(rows), cols, ensure_cols) \o IterRows(Tail(rows), cols, ensure_cols)

\* my_app.gdf_to_cds_polygons: the data of the ColumnDataSource it returns
gdf_to_cds_polygons(gdf, ensure_cols) == IterRows(gdf.rows, gdf.cols, ensure_cols)

\* viztaz_app.split_multipolygons_to_cds
split_multipolygons_to_cds(gdf, ensure_cols) == IterRows(gdf.rows, gdf.cols, ensure_cols)

Decompose(a, gdf, ensure_cols) ==
    IF a = "my_app" THEN gdf_to_cds_polygons(gdf, ensure_cols)
    ELSE split_multipolygons_to_cds(gdf, ensure_cols)

\* "if col not in gdf.columns: gdf[col] = None": what the call leaves in the
\* frame it was given
EnsureColumns(gdf, ensure_cols) ==
    [gdf EXCEPT !.cols = gdf.cols \cup ensure_cols,
                !.rows = [i \in 1..Len(gdf.rows) |->
                    [gdf.rows[i] EXCEPT !.attrs = [c \in gdf.cols \cup ensure_cols |->
                        IF c \in gdf.cols THEN gdf.rows[i].attrs[c] ELSE NoneV]]]]

\* viztaz_app.split_multipolygons_to_text: one label per part, at its centroid
RECURSIVE split_multipolygons_to_text(_)
split_multipolygons_to_text(rows) ==
    IF rows = <<>> THEN <<>>
    ELSE LET r == Head(rows)
             Label(part) == [c |-> Centroid(part), id |-> Str(r.id)]
             here == IF r.gtype = "None" \/ Geom(r) = {} THEN <<>>
                     ELSE IF r.gtype = "MultiPolygon"
                          THEN [i \in 1..Len(r.parts) |-> Label(r.parts[i])]
                     ELSE IF r.gtype = "Polygon" THEN <<Label(r.parts[1])>>
                     ELSE <<>>
         IN  here \o split_multipolygons_to_text(Tail(rows))

\* the running sum of one column: "if isinstance(val, (int, float)): s += val"
RECURSIVE SumValues(_, _)
SumValues(rows, c) ==
    IF rows = <<>> THEN IntV(0)
    ELSE LET s   == SumValues(SubSeq(rows, 1, Len(rows) - 1), c)
             val == rows[Len(rows)].attrs[c]
         IN  IF IsNumber(val) THEN Plus(s, val) ELSE s

Zeros(columns) == [c \in columns |-> IntV(0)]

\* my_app.sum_columns
sum_columns(rows, columns) ==
    IF rows = <<>> THEN Zeros(columns)
    ELSE [c \in columns |-> SumValues(rows, c)]

SumId == <<"S", "u", "m">>

\* faulty variant: the total row is appended only when there are rows to sum
add_sum_row_when_rows(d, colnames) ==
    IF d = <<>> THEN d
    ELSE Append(d, [id |-> SumId, attrs |-> [c \in colnames |-> SumValues(d, c)]])

\* viztaz_app.add_sum_row
add_sum_row(d, colnames) ==
    Append(d, [id |-> SumId, attrs |-> [c \in colnames |-> SumValues(d, c)]])

FmtName(c) == CASE c = "HH19" -> "HH19_fmt" [] c = "EMP19" -> "EMP19_fmt"
                [] c = "HH49" -> "HH49_fmt" [] OTHER -> "EMP49_fmt"
\* f"{x:.1f}" if isinstance(x, (int, float)) else ""
Fmt(x) == CASE x.k = "int" -> [k |-> "text1", v |-> x.v]
            [] x.k = "nan" -> [k |-> "textnan", v |-> 0]
            [] OTHER -> [k |-> "textempty", v |-> 0]

\* viztaz_app.add_formatted_fields
add_formatted_fields(rows, fields) ==
    [i \in 1..Len(rows) |->
        [rows[i] EXCEPT !.attrs =
            [c \in DOMAIN rows[i].attrs \cup {FmtName(f) : f \in fields} |->
                IF \E f \in fields : FmtName(f) = c
                THEN Fmt(rows[i].attrs[CHOOSE f \in fields : FmtName(f) = c])
                ELSE rows[i].attrs[c]]]]

\* faulty variant: the blocks are not filtered against the coarse zone
filter_old_taz_data_nofilter(gdf, old_taz_id) ==
    LET subset_old == WithTazId(gdf.old, old_taz_id)
        region     == UnaryUnion(subset_old.rows)
    IN  IF subset_old.rows = <<>>
        THEN [old |-> NoneGdf, new |-> NoneGdf, blocks |-> NoneGdf]
        ELSE [old    |-> Some(latlon_to_web_mercator(subset_old)),
              new    |-> Some(latlon_to_web_mercator(Intersecting(gdf.new, region))),
              blocks |-> Some(latlon_to_web_mercator(gdf.blocks))]

\* my_app.filter_old_taz_data; gdf holds the module-level frames it reads
filter_old_taz_data(gdf, old_taz_id) ==
    LET subset_old == WithTazId(gdf.old, old_taz_id)
        region     == UnaryUnion(subset_old.rows)
    IN  IF subset_old.rows = <<>>
        THEN [old |-> NoneGdf, new |-> NoneGdf, blocks |-> NoneGdf]
        ELSE [old    |-> Some(latlon_to_web_mercator(subset_old)),
              new    |-> Some(latlon_to_web_mercator(Intersecting(gdf.new, region))),
              blocks |-> Some(latlon_to_web_mercator(Intersecting(gdf.blocks, region)))]

\* viztaz_app.filter_old_taz; gdf holds the module-level frames it reads
filter_old_taz(gdf, old_id_int) ==
    LET subset_old == WithTazId(gdf.old, old_id_int)
        centroid   == Centroid(UnaryUnion(subset_old.rows))
    IN  IF subset_old.rows = <<>>
        THEN [old |-> NoneGdf, new |-> NoneGdf, blocks |-> NoneGdf]
        ELSE [old    |-> Some(subset_old),
              new    |-> Some(IntersectingBuffer(gdf.new, centroid, buffer_radius)),
              blocks |-> Some(IntersectingBuffer(gdf.blocks, centroid, buffer_radius))]


\* gdf.total_bounds
Min(S) == CHOOSE m \in S : \A n \in S : m <= n
Max(S) == CHOOSE m \in S : \A n \in S : m >= n
total_bounds(gdf) ==
    LET pts == UnaryUnion(gdf.rows)
    IN  [minx |-> Min({p[1] : p \in pts}), miny |-> Min({p[2] : p \in pts}),
         maxx |-> Max({p[1] : p \in pts}), maxy |-> Max({p[2] : p \in pts})]

\* faulty variant: the margin is applied to a degenerate box as well
ZoomBox_margin_only(b) ==
    LET dx == b.maxx - b.minx
        dy == b.maxy - b.miny
    IN  [auto |-> FALSE,
         xs |-> b.minx - (MarginNum * dx) \div MarginDen,
         xe |-> b.maxx + (MarginNum * dx) \div MarginDen,
         ys |-> b.miny - (MarginNum * dy) \div MarginDen,
         ye |-> b.maxy + (MarginNum * dy) \div MarginDen]

\* "Zoom to bounding box of old_taz": the range the search gives panel 1
ZoomBox(b) ==
    IF b.minx = b.maxx \/ b.miny = b.maxy
    THEN [auto |-> FALSE, xs |-> b.minx - DegeneratePad, xe |-> b.maxx + DegeneratePad,
          ys |-> b.miny - DegeneratePad, ye |-> b.maxy + DegeneratePad]
    ELSE LET dx == b.maxx - b.minx
             dy == b.maxy - b.miny
         IN  [auto |-> FALSE,
              xs |-> b.minx - (MarginNum * dx) \div MarginDen,
              xe |-> b.maxx + (MarginNum * dx) \div MarginDen,
              ys |-> b.miny - (MarginNum * dy) \div MarginDen,
              ye |-> b.maxy + (MarginNum * dy) \div MarginDen]

\* a figure's ranges before anything sets them
AutoRange == [auto |-> TRUE, xs |-> 0, xe |-> 0, ys |-> 0, ye |-> 0]

-----------------------------------------------------------------------------
(* Inputs *)

\* what the user may type into the search box
SearchTexts == { <<>>, <<"a">>, <<"1">>, <<" ", "3">>, <<"9">> }

\* the index lists a selection event may carry: distinct indices, possibly
\* beyond the end of the layer's current list; in ascending order, and one
\* list in the order of a shift-click that picked row 1 before row 0
RECURSIVE Ascending(_)
Ascending(S) ==
    IF S = {} THEN <<>>
    ELSE LET m == CHOOSE x \in S : \A y \in S : x <= y
         IN  <<m>> \o Ascending(S \ {m})
IndexLists == {Ascending(S) : S \in SUBSET (0..MaxIndex)} \cup {<<1, 0>>}

\* index lists over the first three rows of a layer, taps and shift-clicks in
\* either order
SelectionLists == {<<>>, <<0>>, <<1>>, <<0, 1>>, <<1, 0>>, <<2>>, <<2, 0>>}

\* the range a user's pan or zoom leaves a panel with
UserRange == [auto |-> FALSE, xs |-> 0, xe |-> LatticeUnit, ys |-> 0, ye |-> LatticeUnit]

Status(kind, n, val) == [kind |-> kind, n |-> n, val |-> val]

\* source.data[c][i] for i in sel_inds raises IndexError
OutOfRange(inds, rows) == \E k \in DOMAIN inds : inds[k] >= Len(rows)

\* faulty variant: the rows in the order of the layer, not of the selection
TableRows_ascending(inds, rows, columns) ==
    LET sorted == Ascending({inds[k] : k \in DOMAIN inds})
    IN  [k \in DOMAIN sorted |->
            [id |-> rows[sorted[k] + 1].id,
             attrs |-> [c \in columns |-> rows[sorted[k] + 1].attrs[c]]]]

\* "d[c] = [source.data[c][i] for i in sel_inds]" for c in id and columns
TableRows(inds, rows, columns) ==
    [k \in DOMAIN inds |->
        [id |-> rows[inds[k] + 1].id,
         attrs |-> [c \in columns |-> rows[inds[k] + 1].attrs[c]]]]

-----------------------------------------------------------------------------
(* my_app: the selection callbacks.  Each operator gives the values the     *)
(* callback leaves behind, given the values it finds.                       *)

\* faulty variant: an empty selection resets the blocks layer from the whole blocks
\* file instead of the pool the search kept
new_taz_selection_change_1_fullreset(sel_inds, st) ==
    IF sel_inds = <<>>
    THEN [st EXCEPT !.new_table = <<>>,
                    !.new_sum = Zeros(Cols19),
                    !.blocks = gdf_to_cds_polygons(latlon_to_web_mercator(shp_blocks), Cols19)]
    ELSE IF OutOfRange(sel_inds, st.new)
    THEN [st EXCEPT !.raised = "IndexError"]
    ELSE LET d == TableRows(sel_inds, st.new, Cols19)
         IN  [st EXCEPT !.new_table = d, !.new_sum = sum_columns(d, Cols19)]

\* faulty variant: an empty selection empties the blocks layer
new_taz_selection_change_1_emptied(sel_inds, st) ==
    IF sel_inds = <<>>
    THEN [st EXCEPT !.new_table = <<>>, !.new_sum = Zeros(Cols19), !.blocks = <<>>]
    ELSE IF OutOfRange(sel_inds, st.new)
    THEN [st EXCEPT !.raised = "IndexError"]
    ELSE LET d == TableRows(sel_inds, st.new, Cols19)
         IN  [st EXCEPT !.new_table = d, !.new_sum = sum_columns(d, Cols19)]

\* new_taz_selection_change as first defined (lines 330-391); this is the
\* function object that line 417 registers with on_change
new_taz_selection_change_1(sel_inds, st) ==
    IF sel_inds = <<>>
    THEN [st EXCEPT !.new_table = <<>>,
                    !.new_sum = Zeros(Cols19),
                    !.blocks = IF st.pool_blocks.some
                               THEN gdf_to_cds_polygons(st.pool_blocks, Cols19)
                               ELSE st.blocks,
                    !.pool_blocks = IF st.pool_blocks.some
                                    THEN Some(EnsureColumns(st.pool_blocks, Cols19))
                                    ELSE st.pool_blocks]
    ELSE IF OutOfRange(sel_inds, st.new)
    THEN [st EXCEPT !.raised = "IndexError"]
    ELSE LET d == TableRows(sel_inds, st.new, Cols19)
         IN  [st EXCEPT !.new_table = d, !.new_sum = sum_columns(d, Cols19)]

\* faulty variant: the blocks are filtered from the layer now displayed, not
\* from the pool the search kept
do_new_taz_selection_intersection_displayed(sel_inds, st) ==
    IF sel_inds = <<>> \/ ~st.pool_new.some \/ ~st.pool_blocks.some THEN st
    ELSE LET sel_ids == {st.new[sel_inds[k] + 1].id : k \in DOMAIN sel_inds}
             Chosen(r) == Str(r.id) \in sel_ids
             chosen_taz == SelectSeq(st.pool_new.rows, Chosen)
             union_poly == UnaryUnion(chosen_taz)
             Shown(r) == \E i \in DOMAIN st.blocks : st.blocks[i].id = Str(r.id)
             displayed == [st.pool_blocks EXCEPT !.rows = SelectSeq(@, Shown)]
             filtered_blocks == Intersecting(displayed, union_poly)
         IN  IF chosen_taz = <<>> THEN st
             ELSE [st EXCEPT !.blocks = gdf_to_cds_polygons(filtered_blocks, Cols19)]

\* faulty variant: one filter per selected row, the results appended
RECURSIVE do_new_taz_selection_intersection_per_row(_, _)
do_new_taz_selection_intersection_per_row(sel_inds, st) ==
    IF sel_inds = <<>> \/ ~st.pool_new.some \/ ~st.pool_blocks.some THEN st
    ELSE LET Chosen(r) == Str(r.id) = st.new[Head(sel_inds) + 1].id
             chosen_taz == SelectSeq(st.pool_new.rows, Chosen)
             union_poly == UnaryUnion(chosen_taz)
             filtered_blocks == Intersecting(st.pool_blocks, union_poly)
             rest == IF Tail(sel_inds) = <<>> THEN <<>>
                     ELSE do_new_taz_selection_intersection_per_row(Tail(sel_inds), st).blocks
         IN  IF chosen_taz = <<>> THEN st
             ELSE [st EXCEPT !.blocks = gdf_to_cds_polygons(filtered_blocks, Cols19) \o rest]

\* do_new_taz_selection_intersection (lines 425-453)
do_new_taz_selection_intersection(sel_inds, st) ==
    IF sel_inds = <<>> \/ ~st.pool_new.some \/ ~st.pool_blocks.some THEN st
    ELSE LET sel_ids == {st.new[sel_inds[k] + 1].id : k \in DOMAIN sel_inds}
             Chosen(r) == Str(r.id) \in sel_ids
             chosen_taz == SelectSeq(st.pool_new.rows, Chosen)
             union_poly == UnaryUnion(chosen_taz)
             filtered_blocks == Intersecting(st.pool_blocks, union_poly)
         IN  IF chosen_taz = <<>> THEN st
             ELSE [st EXCEPT !.blocks = gdf_to_cds_polygons(filtered_blocks, Cols19)]

\* new_taz_selection_change as defined again (lines 455-488); nothing
\* registers this second function, so no event reaches it
new_taz_selection_change_2(sel_inds, st) ==
    IF sel_inds = <<>> THEN new_taz_selection_change_1(sel_inds, st)
    ELSE IF OutOfRange(sel_inds, st.new)
    THEN [st EXCEPT !.raised = "IndexError"]
    ELSE LET d == TableRows(sel_inds, st.new, Cols19)
         IN  do_new_taz_selection_intersection(sel_inds,
                 [st EXCEPT !.new_table = d, !.new_sum = sum_columns(d, Cols19)])

\* the callback of new_taz_source.selected "indices" in my_app
registered_new_taz_callback(sel_inds, st) == new_taz_selection_change_1(sel_inds, st)

\* faulty variant: the blocks callback writes the New TAZ table
blocks_selection_change_wrongtable(sel_inds, st) ==
    IF sel_inds = <<>>
    THEN [st EXCEPT !.new_table = <<>>, !.new_sum = Zeros(Cols19)]
    ELSE IF OutOfRange(sel_inds, st.blocks)
    THEN [st EXCEPT !.raised = "IndexError"]
    ELSE LET d == TableRows(sel_inds, st.blocks, Cols19)
         IN  [st EXCEPT !.new_table = d, !.new_sum = sum_columns(d, Cols19)]

\* blocks_selection_change (lines 393-415)
blocks_selection_change(sel_inds, st) ==
    IF sel_inds = <<>>
    THEN [st EXCEPT !.blocks_table = <<>>, !.blocks_sum = Zeros(Cols19)]
    ELSE IF OutOfRange(sel_inds, st.blocks)
    THEN [st EXCEPT !.raised = "IndexError"]
    ELSE LET d == TableRows(sel_inds, st.blocks, Cols19)
         IN  [st EXCEPT !.blocks_table = d, !.blocks_sum = sum_columns(d, Cols19)]

\* the values the callbacks read and write, taken from the current state
Snapshot ==
    [new |-> new_taz_source, blocks |-> blocks_source,
     new_table |-> new_taz_table_source, new_sum |-> new_taz_sum_div,
     blocks_table |-> blocks_table_source, blocks_sum |-> blocks_sum_div,
     pool_new |-> global_new_web, pool_blocks |-> global_blocks_web,
     raised |-> "none"]

\* ... and written back
Commit(st) ==
    /\ new_taz_source' = st.new
    /\ blocks_source' = st.blocks
    /\ new_taz_table_source' = st.new_table
    /\ new_taz_sum_div' = st.new_sum
    /\ blocks_table_source' = st.blocks_table
    /\ blocks_sum_div' = st.blocks_sum
    /\ global_new_web' = st.pool_new
    /\ global_blocks_web' = st.pool_blocks
    /\ raised' = st.raised

-----------------------------------------------------------------------------
(* my_app: the event handlers *)

\* the rendering surface reports a selection on panel 2
MyNewTazSelectionChange(inds) ==
    /\ app = "my_app"
    /\ inds # new_sel
    /\ new_sel' = inds
    /\ Commit(registered_new_taz_callback(inds, Snapshot))
    /\ event' = "new_taz_selection"
    /\ UNCHANGED <<call, crs, extraVars>>
    /\ UNCHANGED <<app, text_input, search_status, old_taz_source, mirrorVars,
                   blocks_sel, ranges, vizVars, pans>>

\* the rendering surface reports a selection on panel 4
MyBlocksSelectionChange(inds) ==
    /\ app = "my_app"
    /\ inds # blocks_sel
    /\ blocks_sel' = inds
    /\ Commit(blocks_selection_change(inds, Snapshot))
    /\ event' = "blocks_selection"
    /\ UNCHANGED <<call, crs, extraVars>>
    /\ UNCHANGED <<app, text_input, search_status, old_taz_source, mirrorVars,
                   new_sel, ranges, vizVars, pans>>

\* faulty variant: the search leaves the selection as it was
kept_indices(old) == old

\* selected.update(indices=[]) / selected.indices = []: the indices a search
\* leaves a selection with
cleared_indices(old) == <<>>

\* faulty variant: the search assigns the other layers and skips blocks_source
SearchBlocksData_skipped(f, st) == st.blocks

\* faulty variant: the search extends the lists of blocks_source
SearchBlocksData_appended(f, st) == st.blocks \o gdf_to_cds_polygons(f.blocks, Cols19)

\* "blocks_source.data = dict(blocks_temp.data)" of on_search_click
SearchBlocksData(f, st) == gdf_to_cds_polygons(f.blocks, Cols19)

\* on_search_click, lines 532-534: "Clear selections"; each update that
\* changes the indices runs that source's callback
ClearSelections(st) ==
    LET st1 == IF cleared_indices(new_sel) # new_sel
               THEN registered_new_taz_callback(cleared_indices(new_sel), st) ELSE st
    IN  IF cleared_indices(blocks_sel) # blocks_sel
        THEN blocks_selection_change(cleared_indices(blocks_sel), st1) ELSE st1

\* the integers the texts of the search box stand for
SearchIds == {ParseInt(Strip(t)).v : t \in {u \in SearchTexts : ParseInt(Strip(u)).ok}}

\* the frames the three shapefiles of a session may be in
FrameChoices == [{"old", "new", "blocks"} -> FileFrames]

\* filter_old_taz_data and the conversions of on_search_click (lines 546-570)
\* for each identifier: they read nothing but the shapefiles
my_search == [tags \in FrameChoices |-> [old_taz_id \in SearchIds |->
    LET f == filter_old_taz_data(Loaded("my_app", tags), old_taz_id)
    IN  IF ~f.old.some \/ f.old.rows = <<>> THEN [found |-> FALSE]
        ELSE [found       |-> TRUE,
              f           |-> f,
              new_web     |-> Some(EnsureColumns(f.new, Cols19)),
              blocks_web  |-> Some(EnsureColumns(f.blocks, Cols19)),
              old_temp    |-> gdf_to_cds_polygons(f.old, {}),
              new_temp    |-> gdf_to_cds_polygons(f.new, Cols19),
              old_blocks_temp |-> gdf_to_cds_polygons(f.blocks, {}),
              zoom        |-> ZoomBox(total_bounds(f.old))]]]

\* faulty variant: the pools of an earlier search are kept
MySearchFound_stale_pool(old_id_int, r, st) ==
    /\ Commit([st EXCEPT !.pool_new = IF st.pool_new.some THEN st.pool_new ELSE r.new_web,
                         !.pool_blocks = IF st.pool_blocks.some THEN st.pool_blocks
                                         ELSE r.blocks_web,
                         !.new = r.new_temp,
                         !.blocks = SearchBlocksData(r.f, st)])
    /\ old_taz_source' = r.old_temp
    /\ old_taz_blocks_source' = r.old_blocks_temp
    /\ new_taz_blocks_source' = r.old_blocks_temp
    /\ combined_old_source' = r.old_temp
    /\ combined_new_source' = r.new_temp
    /\ combined_blocks_source' = r.old_blocks_temp
    /\ search_status' = Status("found", old_id_int, <<>>)
    /\ ranges' = [ranges EXCEPT !["p_old"] = r.zoom]

\* faulty variant: the block outlines of panel 1 are not assigned
MySearchFound_outline_kept(old_id_int, r, st) ==
    /\ Commit([st EXCEPT !.pool_new = r.new_web,
                         !.pool_blocks = r.blocks_web,
                         !.new = r.new_temp,
                         !.blocks = SearchBlocksData(r.f, st)])
    /\ old_taz_source' = r.old_temp
    /\ old_taz_blocks_source' = old_taz_blocks_source
    /\ new_taz_blocks_source' = r.old_blocks_temp
    /\ combined_old_source' = r.old_temp
    /\ combined_new_source' = r.new_temp
    /\ combined_blocks_source' = r.old_blocks_temp
    /\ search_status' = Status("found", old_id_int, <<>>)
    /\ ranges' = [ranges EXCEPT !["p_old"] = r.zoom]

\* on_search_click, lines 551-601: a coarse zone was found
MySearchFound(old_id_int, r, st) ==
    /\ Commit([st EXCEPT !.pool_new = r.new_web,
                         !.pool_blocks = r.blocks_web,
                         !.new = r.new_temp,
                         !.blocks = SearchBlocksData(r.f, st)])
    /\ old_taz_source' = r.old_temp
    /\ old_taz_blocks_source' = r.old_blocks_temp
    /\ new_taz_blocks_source' = r.old_blocks_temp
    /\ combined_old_source' = r.old_temp
    /\ combined_new_source' = r.new_temp
    /\ combined_blocks_source' = r.old_blocks_temp
    /\ search_status' = Status("found", old_id_int, <<>>)
    /\ ranges' = [ranges EXCEPT !["p_old"] = r.zoom]

\* faulty variant: the ValueError of int(val) is not caught, the handler ends
\* with it and the status stays at "loading..."
except_ValueError_uncaught(val) ==
    [status |-> Status("loading", 0, <<>>), raised |-> "ValueError"]

\* on_search_click, lines 540-544: "try: int(val) except ValueError"
except_ValueError(val) == [status |-> Status("invalid", 0, val), raised |-> "none"]

\* on_search_click (lines 530-601); my_app attaches no callback to the search
\* box, so val is what the box holds when the click arrives
MyOnSearchClick(val0) ==
    /\ app = "my_app"
    /\ text_input' = val0
    /\ new_sel' = cleared_indices(new_sel)
    /\ blocks_sel' = cleared_indices(blocks_sel)
    /\ event' = "search"
    /\ UNCHANGED <<call, crs, extraVars>>
    /\ LET st  == ClearSelections(Snapshot)
           val == Strip(val0)
           n   == ParseInt(val)
           r   == my_search[crs][n.v]
       IN  IF val = <<>> \/ ~n.ok \/ ~r.found
           THEN /\ Commit(IF val # <<>> /\ ~n.ok
                          THEN [st EXCEPT !.raised = except_ValueError(val).raised]
                          ELSE st)
                /\ search_status' = IF val = <<>> THEN Status("no_input", 0, <<>>)
                                    ELSE IF ~n.ok THEN except_ValueError(val).status
                                    ELSE Status("not_found", n.v, <<>>)
                /\ UNCHANGED <<old_taz_source, mirrorVars, ranges>>
           ELSE MySearchFound(n.v, r, st)
    /\ UNCHANGED <<app, vizVars, pans>>

\* on_match_zoom_click, the same in both programs
OnMatchZoomClick ==
    /\ ranges' = [p \in Panels |-> ranges["p_old"]]
    /\ event' = "match_zoom"
    /\ UNCHANGED <<call, crs, extraVars>>
    /\ raised' = "none"
    /\ UNCHANGED <<app, text_input, search_status, layerVars, mirrorVars, new_sel,
                   blocks_sel, newAggVars, blocksAggVars, poolVars, vizVars, pans>>

\* faulty variant: the panels stay linked, a pan of one moves them all
PanZoom_linked(p) ==
    /\ p \in PanPanels
    /\ pans < MaxPans
    /\ pans' = pans + 1
    /\ ranges[p] # UserRange
    /\ ranges' = [q \in Panels |-> UserRange]
    /\ event' = "pan"
    /\ UNCHANGED <<call, crs, extraVars>>
    /\ raised' = "none"
    /\ UNCHANGED <<app, text_input, search_status, layerVars, mirrorVars, new_sel,
                   blocks_sel, newAggVars, blocksAggVars, poolVars, vizVars>>

\* the user pans or zooms one panel with the pan / wheel_zoom / box_zoom tools
PanZoom(p) ==
    /\ p \in PanPanels
    /\ pans < MaxPans
    /\ pans' = pans + 1
    /\ ranges[p] # UserRange
    /\ ranges' = [ranges EXCEPT ![p] = UserRange]
    /\ event' = "pan"
    /\ UNCHANGED <<call, crs, extraVars>>
    /\ raised' = "none"
    /\ UNCHANGED <<app, text_input, search_status, layerVars, mirrorVars, new_sel,
                   blocks_sel, newAggVars, blocksAggVars, poolVars, vizVars>>

-----------------------------------------------------------------------------
(* viztaz_app: the callbacks and event handlers *)

AllCols == Cols19 \cup Cols49

\* update_new_taz_table (lines 515-524)
update_new_taz_table(inds, st) ==
    IF inds # <<>> /\ OutOfRange(inds, st.new)
    THEN [st EXCEPT !.raised = "IndexError"]
    ELSE [st EXCEPT !.new_table = add_sum_row(TableRows(inds, st.new, AllCols), AllCols)]

\* update_blocks_table (lines 526-534)
update_blocks_table(inds, st) ==
    IF inds # <<>> /\ OutOfRange(inds, st.blocks)
    THEN [st EXCEPT !.raised = "IndexError"]
    ELSE [st EXCEPT !.blocks_table = add_sum_row(TableRows(inds, st.blocks, AllCols), AllCols)]

VizNewTazSelectionChange(inds) ==
    /\ app = "viztaz_app"
    /\ inds # new_sel
    /\ new_sel' = inds
    /\ Commit(update_new_taz_table(inds, Snapshot))
    /\ event' = "new_taz_selection"
    /\ UNCHANGED <<call, crs, extraVars>>
    /\ UNCHANGED <<app, text_input, search_status, old_taz_source, mirrorVars,
                   blocks_sel, ranges, vizVars, pans>>

VizBlocksSelectionChange(inds) ==
    /\ app = "viztaz_app"
    /\ inds # blocks_sel
    /\ blocks_sel' = inds
    /\ Commit(update_blocks_table(inds, Snapshot))
    /\ event' = "blocks_selection"
    /\ UNCHANGED <<call, crs, extraVars>>
    /\ UNCHANGED <<app, text_input, search_status, old_taz_source, mirrorVars,
                   new_sel, ranges, vizVars, pans>>

\* filter_old_taz and the conversions of run_search (lines 567-628) for each
\* identifier: they read nothing but the shapefiles
viz_search == [tags \in FrameChoices |-> [old_id_int \in SearchIds |->
    LET gdf == Loaded("viztaz_app", tags)
        f   == filter_old_taz(gdf, old_id_int)
        centroid  == Centroid(UnaryUnion(f.old.rows))
        neighbors == IntersectingBuffer(gdf.old, centroid, buffer_radius)
    IN  IF ~f.old.some \/ f.old.rows = <<>> THEN [found |-> FALSE]
        ELSE [found       |-> TRUE,
              n           |-> Some(EnsureColumns(f.new, AllCols)),
              b           |-> Some(EnsureColumns(f.blocks, AllCols)),
              buffer      |-> <<[c |-> centroid, radius |-> buffer_radius,
                                 id |-> StrNat(old_id_int)]>>,
              neighbors_temp |-> split_multipolygons_to_cds(neighbors, {}),
              old_temp    |-> split_multipolygons_to_cds(f.old, {}),
              new_temp    |-> add_formatted_fields(
                                  split_multipolygons_to_cds(f.new, AllCols), FmtFields),
              blocks_temp |-> add_formatted_fields(
                                  split_multipolygons_to_cds(f.blocks, AllCols), FmtFields),
              old_blocks_temp |-> split_multipolygons_to_cds(f.blocks, {}),
              old_text_data   |-> split_multipolygons_to_text(f.old.rows),
              new_text_data   |-> split_multipolygons_to_text(f.new.rows),
              zoom        |-> ZoomBox(total_bounds(f.old))]]]

\* faulty variant: the search zooms panel 1 and leaves the others
AutoMatch_primary_only(zoom) == [ranges EXCEPT !["p_old"] = zoom]

\* run_search, lines 651-661: panel 1 and then "Auto-match all 4 panels to the
\* same bounding box"
AutoMatch(zoom) == [p \in Panels |-> zoom]

\* run_search, lines 572-661: a coarse zone was found
VizSearchFound(old_id_int, r) ==
    \* "Clear tables & selection", then both tables are rebuilt
    LET st == update_blocks_table(cleared_indices(blocks_sel),
                  update_new_taz_table(cleared_indices(new_sel),
                  [Snapshot EXCEPT !.pool_new = r.n, !.pool_blocks = r.b,
                                   !.new = r.new_temp, !.blocks = r.blocks_temp,
                                   !.new_table = <<>>, !.blocks_table = <<>>]))
    IN  /\ Commit(st)
        /\ search_status' = Status("found", old_id_int, <<>>)
        /\ old_taz_buffer_source' = r.buffer
        /\ old_taz_neighbors_source' = r.neighbors_temp
        /\ old_taz_source' = r.old_temp
        /\ old_taz_blocks_source' = r.old_blocks_temp
        /\ new_taz_blocks_source' = r.old_blocks_temp
        /\ combined_old_source' = r.old_temp
        /\ combined_new_source' = r.new_temp
        /\ combined_blocks_source' = r.old_blocks_temp
        /\ old_taz_text_source' = r.old_text_data
        /\ new_taz_text_source' = r.new_text_data
        /\ new_sel' = cleared_indices(new_sel)
        /\ blocks_sel' = cleared_indices(blocks_sel)
        /\ ranges' = AutoMatch(r.zoom)

\* run_search (lines 556-661) on the text val
run_search(val0) ==
    LET val == Strip(val0)
        n   == ParseInt(val)
        r   == viz_search[crs][n.v]
    IN  IF val = <<>> \/ ~n.ok \/ ~r.found
        THEN /\ search_status' = IF val = <<>> THEN Status("no_input", 0, <<>>)
                                 ELSE Status("not_found", 0, <<>>)
             /\ raised' = "none"
             /\ UNCHANGED <<layerVars, mirrorVars, new_sel, blocks_sel, newAggVars,
                            blocksAggVars, poolVars, ranges, vizVars>>
        ELSE VizSearchFound(n.v, r)

\* on_search_click: the Search TAZ button
VizOnSearchClick ==
    /\ app = "viztaz_app"
    /\ run_search(text_input)
    /\ event' = "search"
    /\ UNCHANGED <<call, crs, extraVars>>
    /\ UNCHANGED <<app, text_input, pans>>

\* on_text_input_change: the value of the search box changed
VizOnTextInputChange(val) ==
    /\ app = "viztaz_app"
    /\ val # text_input
    /\ text_input' = val
    /\ run_search(val)
    /\ event' = "search"
    /\ UNCHANGED <<call, crs, extraVars>>
    /\ UNCHANGED <<app, pans>>

-----------------------------------------------------------------------------
(* viztaz_app: the extra-zone search *)

\* what the user may type into the box of extra coarse-zone identifiers
ExtraTexts == { <<>>, <<"1">>, <<"3", ",", "1">>, <<"1", ",", " ", ",">>,
                <<"1", ",", "a">>, <<"9">>, <<"9", ",", "2">>, <<",">> }

\* val.split(",")
RECURSIVE Split(_)
Split(s) ==
    IF \A i \in 1..Len(s) : s[i] # "," THEN <<s>>
    ELSE LET i == CHOOSE i \in 1..Len(s) : s[i] = "," /\ \A j \in 1..(i - 1) : s[j] # ","
         IN  <<SubSeq(s, 1, i - 1)>> \o Split(SubSeq(s, i + 1, Len(s)))

\* faulty variant: a token that is not an integer is skipped
id_list_skip_invalid(val) ==
    LET parts == Split(val)
        toks  == SelectSeq([k \in DOMAIN parts |-> Strip(parts[k])],
                           LAMBDA x : x # <<>> /\ ParseInt(x).ok)
    IN  [ok |-> TRUE, ids |-> [k \in DOMAIN toks |-> ParseInt(toks[k]).v]]

\* "id_list = [int(x.strip()) for x in val.split(",") if x.strip() != ""]":
\* the list, or ValueError
id_list(val) ==
    LET parts == Split(val)
        toks  == SelectSeq([k \in DOMAIN parts |-> Strip(parts[k])], LAMBDA x : x # <<>>)
    IN  IF \E k \in DOMAIN toks : ~ParseInt(toks[k]).ok
        THEN [ok |-> FALSE, ids |-> <<>>]
        ELSE [ok |-> TRUE, ids |-> [k \in DOMAIN toks |-> ParseInt(toks[k]).v]]

\* gdf[gdf['taz_id'].isin(id_list)]
WithTazIdIn(gdf, ids) ==
    LET Listed(r) == r.id.k = "int" /\ \E k \in DOMAIN ids : ids[k] = r.id.v
    IN  [gdf EXCEPT !.rows = SelectSeq(gdf.rows, Listed)]

\* run_extra_search (lines 699-720): the data it assigns to
\* extra_old_taz_source and to extra_old_taz_text_source
run_extra_search(val0) ==
    LET val == Strip(val0)
        l   == id_list(val)
        subset_extra == WithTazIdIn(Loaded("viztaz_app", crs).old, l.ids)
    IN  IF val = <<>> \/ ~l.ok \/ subset_extra.rows = <<>>
        THEN [polys |-> <<>>, labels |-> <<>>]
        ELSE [polys  |-> split_multipolygons_to_cds(subset_extra, {}),
              labels |-> split_multipolygons_to_text(subset_extra.rows)]

\* faulty variant: the extra search also clears the labels of panel 1
ExtraSearch_clears_labels ==
    /\ app = "viztaz_app"
    /\ extra_old_taz_source' = run_extra_search(extra_taz_input).polys
    /\ extra_old_taz_text_source' = run_extra_search(extra_taz_input).labels
    /\ old_taz_text_source' = <<>>
    /\ raised' = "none"
    /\ UNCHANGED <<app, text_input, search_status, layerVars, mirrorVars, new_sel,
                   blocks_sel, newAggVars, blocksAggVars, poolVars, ranges,
                   old_taz_buffer_source, old_taz_neighbors_source, new_taz_text_source,
                   pans, crs, call, extra_taz_input>>

\* a run of run_extra_search on the value of the box
ExtraSearch ==
    /\ app = "viztaz_app"
    /\ extra_old_taz_source' = run_extra_search(extra_taz_input).polys
    /\ extra_old_taz_text_source' = run_extra_search(extra_taz_input).labels
    /\ raised' = "none"
    /\ UNCHANGED <<app, text_input, search_status, layerVars, mirrorVars, new_sel,
                   blocks_sel, newAggVars, blocksAggVars, poolVars, ranges, vizVars,
                   pans, crs, call, extra_taz_input>>

\* extra_search_button.on_click(run_extra_search)
OnExtraSearchClick ==
    /\ ExtraSearch
    /\ event' = "extra_search"

\* extra_taz_input.on_change("value_input", ...): a keystroke in the box; the
\* handler reads extra_taz_input.value, the text last committed
OnExtraValueInput ==
    /\ ExtraSearch
    /\ event' = "extra_search"

\* the user commits a text in the box (Enter, or the box loses the focus):
\* extra_taz_input.value changes, and no callback is attached to it
EditExtraTazInput(val) ==
    /\ app = "viztaz_app"
    /\ val # extra_taz_input
    /\ extra_taz_input' = val
    /\ event' = "extra_input"
    /\ raised' = "none"
    /\ UNCHANGED <<app, text_input, search_status, layerVars, mirrorVars, new_sel,
                   blocks_sel, newAggVars, blocksAggVars, poolVars, ranges, vizVars,
                   pans, crs, call, extra_old_taz_source, extra_old_taz_text_source>>

-----------------------------------------------------------------------------
(* The decomposition helpers, column by column.  gdf_to_cds_polygons and    *)
(* split_multipolygons_to_cds build the lists all_xs, all_ys, all_ids and   *)
(* one list per requested column, and append to each of them for every      *)
(* sub-polygon they emit.                                                   *)

\* subpoly.exterior.coords.xy: the vertices of a part, here its points in
\* lexicographic order
RECURSIVE Ring(_)
Ring(pts) ==
    IF pts = {} THEN <<>>
    ELSE LET p == CHOOSE q \in pts : \A o \in pts :
                      q[1] < o[1] \/ (q[1] = o[1] /\ q[2] <= o[2])
         IN  <<p>> \o Ring(pts \ {p})
Xs(part) == [k \in 1..Cardinality(part) |-> Ring(part)[k][1]]
Ys(part) == [k \in 1..Cardinality(part) |-> Ring(part)[k][2]]

\* all_xs, all_ys, all_ids = [], [], [];  attr_lists = {col: [] for col in ensure_cols}
EmptyColumns(ensure_cols) ==
    [xs |-> <<>>, ys |-> <<>>, id |-> <<>>, attrs |-> [c \in ensure_cols |-> <<>>]]

\* the four appends made for one sub-polygon
AppendPart(data, part, row_id, row_attrs) ==
    [xs |-> Append(data.xs, Xs(part)),
     ys |-> Append(data.ys, Ys(part)),
     id |-> Append(data.id, row_id),
     attrs |-> [c \in DOMAIN data.attrs |-> Append(data.attrs[c], row_attrs[c])]]

\* "for subpoly in geom.geoms"
RECURSIVE AppendParts(_, _, _, _)
AppendParts(data, parts, row_id, row_attrs) ==
    IF parts = <<>> THEN data
    ELSE AppendParts(AppendPart(data, Head(parts), row_id, row_attrs),
                     Tail(parts), row_id, row_attrs)

\* faulty variant: a column the frame lacks is filled with zero
RowAttrs_zero(r, cols, ensure_cols) ==
    [c \in ensure_cols |-> IF c \in cols THEN r.attrs[c] ELSE IntV(0)]

\* row_attrs = {col: row[col] for col in ensure_cols}, the columns the frame
\* lacked having been added as None
RowAttrs(r, cols, ensure_cols) ==
    [c \in ensure_cols |-> IF c \in cols THEN r.attrs[c] ELSE NoneV]

\* faulty variant: a record with an empty geometry is not skipped
AppendRecord_keep_empty(data, r, cols, ensure_cols) ==
    LET row_id    == Str(r.id)
        row_attrs == RowAttrs(r, cols, ensure_cols)
    IN  IF r.gtype = "None" THEN data
        ELSE IF r.gtype = "MultiPolygon"
             THEN IF r.parts = <<>> THEN AppendPart(data, {}, row_id, row_attrs)
                  ELSE AppendParts(data, r.parts, row_id, row_attrs)
        ELSE IF r.gtype = "Polygon" THEN AppendPart(data, r.parts[1], row_id, row_attrs)
        ELSE data

\* faulty variant: a MultiPolygon is kept as one row
AppendRecord_whole(data, r, cols, ensure_cols) ==
    LET row_id    == Str(r.id)
        row_attrs == RowAttrs(r, cols, ensure_cols)
    IN  IF r.gtype = "None" \/ Geom(r) = {} THEN data
        ELSE IF r.gtype \in {"MultiPolygon", "Polygon"}
             THEN AppendPart(data, Geom(r), row_id, row_attrs)
        ELSE data

\* faulty variant: the MultiPolygon branch appends the parts in reverse
AppendRecord_reversed(data, r, cols, ensure_cols) ==
    LET row_id    == Str(r.id)
        row_attrs == RowAttrs(r, cols, ensure_cols)
        rev       == [j \in 1..Len(r.parts) |-> r.parts[Len(r.parts) + 1 - j]]
    IN  IF r.gtype = "None" \/ Geom(r) = {} THEN data
        ELSE IF r.gtype = "MultiPolygon" THEN AppendParts(data, rev, row_id, row_attrs)
        ELSE IF r.gtype = "Polygon" THEN AppendPart(data, r.parts[1], row_id, row_attrs)
        ELSE data

\* the body of "for _, row in gdf.iterrows()"
AppendRecord(data, r, cols, ensure_cols) ==
    LET row_id    == Str(r.id)
        row_attrs == RowAttrs(r, cols, ensure_cols)
    IN  IF r.gtype = "None" \/ Geom(r) = {} THEN data
        ELSE IF r.gtype = "MultiPolygon" THEN AppendParts(data, r.parts, row_id, row_attrs)
        ELSE IF r.gtype = "Polygon" THEN AppendPart(data, r.parts[1], row_id, row_attrs)
        ELSE data

RECURSIVE IterColumns(_, _, _, _)
IterColumns(data, rows, cols, ensure_cols) ==
    IF rows = <<>> THEN data
    ELSE IterColumns(AppendRecord(data, Head(rows), cols, ensure_cols),
                     Tail(rows), cols, ensure_cols)

\* my_app.gdf_to_cds_polygons: the dict "data" of the ColumnDataSource
gdf_to_cds_polygons_data(gdf, ensure_cols) ==
    IterColumns(EmptyColumns(ensure_cols), gdf.rows, gdf.cols, ensure_cols)

\* viztaz_app.split_multipolygons_to_cds: the dict "data"
split_multipolygons_to_cds_data(gdf, ensure_cols) ==
    IterColumns(EmptyColumns(ensure_cols), gdf.rows, gdf.cols, ensure_cols)

\* no helper has been called
NoCall == [fn |-> "none", gdf_in |-> [cols |-> {}, rows |-> <<>>], ensure_cols |-> {},
           gdf |-> [cols |-> {}, rows |-> <<>>], data |-> EmptyColumns({})]

\* the frames handed to the helpers: up to MaxRecords records, each with no
\* geometry, an empty geometry, a Polygon or a MultiPolygon of two parts;
\* identifiers are unique, integers and strings in turn; the frame has the
\* column HH19 or has no attribute column
Shapes == {"none", "empty", "polygon", "multi"}
FrameCols == {{}, {"HH19"}}
EnsureChoices == {{}, {"HH19"}, {"HH19", "EMP19"}}
FrameRecord(i, shape, cols) ==
    [id    |-> IF i % 2 = 1 THEN IntId(i) ELSE StrId(<<"b", Digits[i + 1]>>),
     gtype |-> CASE shape = "none" -> "None" [] shape = "multi" -> "MultiPolygon"
                 [] OTHER -> "Polygon",
     parts |-> CASE shape = "none" -> <<>>
                 [] shape = "empty" -> <<{}>>
                 [] shape = "polygon" -> <<Box(4 * i, 4 * i + 1, 0, 0)>>
                 [] OTHER -> <<Box(4 * i + 2, 4 * i + 3, 1, 1), Box(4 * i, 4 * i, 1, 1)>>,
     attrs |-> [c \in cols |-> IntV(10 * i)]]
Frames ==
    UNION {{[cols |-> cs, rows |-> [i \in 1..n |-> FrameRecord(i, sh[i], cs)]] :
               sh \in [1..n -> Shapes], cs \in FrameCols} : n \in 0..MaxRecords}

\* a call of the program's decomposition helper on the frame given
CallDecompose(fn, data, ensure_cols) ==
    /\ call.fn = "none"
    /\ call' = [call EXCEPT !.fn = fn,
                            !.ensure_cols = ensure_cols,
                            !.gdf = EnsureColumns(call.gdf, ensure_cols),
                            !.data = data]
    /\ UNCHANGED <<appVars, extraVars>>

CallGdfToCdsPolygons(ensure_cols) ==
    /\ app = "my_app"
    /\ CallDecompose("gdf_to_cds_polygons",
                     gdf_to_cds_polygons_data(call.gdf, ensure_cols), ensure_cols)

CallSplitMultipolygonsToCds(ensure_cols) ==
    /\ app = "viztaz_app"
    /\ CallDecompose("split_multipolygons_to_cds",
                     split_multipolygons_to_cds_data(call.gdf, ensure_cols), ensure_cols)

\* the reference geometries handed to the filter
Regions == {{}, Box(4, 5, 0, 1), Box(6, 7, 1, 1), Box(8, 12, 0, 0), Box(0, 20, 0, 1)}
\* the radii of the buffers
Radii == {1, 3}

\* gdf[gdf.intersects(region)], and the same filter on its result
CallIntersecting(C, R) ==
    /\ call.fn = "none"
    /\ call' = [fn |-> "intersects", gdf_in |-> C, gdf |-> C, region |-> R,
                once  |-> Intersecting(C, R),
                twice |-> Intersecting(Intersecting(C, R), R)]
    /\ UNCHANGED <<appVars, extraVars>>

\* gdf[gdf.intersects(buffer_geom)] for the buffer around the centroid of R
CallIntersectingBuffer(C, R, radius) ==
    /\ call.fn = "none"
    /\ call' = [fn |-> "intersects_buffer", gdf_in |-> C, gdf |-> C,
                region |-> {p \in Box(0, 20, 0, 1) : InBuffer(p, Centroid(R), radius)},
                once  |-> IntersectingBuffer(C, Centroid(R), radius),
                twice |-> IntersectingBuffer(IntersectingBuffer(C, Centroid(R), radius),
                                             Centroid(R), radius)]
    /\ UNCHANGED <<appVars, extraVars>>

-----------------------------------------------------------------------------
(* viztaz_4_panel: the four linked axes *)

\* the limits an axes may have: get_xlim() and get_ylim()
Limits(xs, xe, ys, ye) == [auto |-> FALSE, xs |-> xs, xe |-> xe, ys |-> ys, ye |-> ye]
AxesLimits == {Limits(0, 10, 0, 10), Limits(2, 6, 0, 10), Limits(2, 6, 3, 5)}

\* the events that compare_taz_blocks connects sync_axes to
MplEvents == {"scroll_event", "button_release_event", "motion_notify_event"}

\* faulty variant: set_ylim is forgotten
sync_axes_x_only(inaxes, lims) ==
    IF inaxes = "None" THEN lims
    ELSE [ax \in Panels |-> [lims[ax] EXCEPT !.xs = lims[inaxes].xs,
                                             !.xe = lims[inaxes].xe]]

\* sync_axes(event): the limits of the four axes it leaves
sync_axes(inaxes, lims) ==
    IF inaxes = "None" THEN lims
    ELSE [ax \in Panels |-> lims[inaxes]]

\* an event of one of the three kinds reaches sync_axes
SyncAxes(name, inaxes) ==
    /\ app = "viztaz_4_panel"
    /\ ranges' = sync_axes(inaxes, ranges)
    /\ call' = [fn |-> "sync_axes", name |-> name, inaxes |-> inaxes]
    /\ event' = name
    /\ raised' = "none"
    /\ UNCHANGED <<app, text_input, search_status, layerVars, mirrorVars, new_sel,
                   blocks_sel, newAggVars, blocksAggVars, poolVars, vizVars, pans, crs,
                   extraVars>>

\* the pan or zoom tool of the window gives one axes new limits
ToolbarMove(ax, lim) ==
    /\ app = "viztaz_4_panel"
    /\ ranges[ax] # lim
    /\ ranges' = [ranges EXCEPT ![ax] = lim]
    /\ event' = "toolbar"
    /\ raised' = "none"
    /\ UNCHANGED <<app, text_input, search_status, layerVars, mirrorVars, new_sel,
                   blocks_sel, newAggVars, blocksAggVars, poolVars, vizVars, pans, crs,
                   call, extraVars>>

-----------------------------------------------------------------------------
(* The state machine *)

\* the sources, tables, pools and selections before any event
InitSources ==
    /\ text_input = <<>>
    /\ search_status = Status("none", 0, <<>>)
    /\ old_taz_source = <<>> /\ new_taz_source = <<>> /\ blocks_source = <<>>
    /\ old_taz_blocks_source = <<>> /\ new_taz_blocks_source = <<>>
    /\ combined_old_source = <<>> /\ combined_new_source = <<>>
    /\ combined_blocks_source = <<>>
    /\ new_sel = <<>> /\ blocks_sel = <<>>
    /\ new_taz_table_source = <<>> /\ blocks_table_source = <<>>
    /\ new_taz_sum_div = (IF app = "my_app" THEN Zeros(Cols19) ELSE Zeros({}))
    /\ blocks_sum_div = (IF app = "my_app" THEN Zeros(Cols19) ELSE Zeros({}))
    /\ global_new_web = NoneGdf /\ global_blocks_web = NoneGdf
    /\ old_taz_buffer_source = <<>> /\ old_taz_neighbors_source = <<>>
    /\ old_taz_text_source = <<>> /\ new_taz_text_source = <<>>
    /\ extra_taz_input = <<>>
    /\ extra_old_taz_source = <<>> /\ extra_old_taz_text_source = <<>>
    /\ raised = "none"
    /\ event = "init"
    /\ pans = 0

InitApp ==
    /\ app \in {"my_app", "viztaz_app"}
    /\ ranges = [p \in Panels |-> AutoRange]
    /\ InitSources

Init == InitApp /\ crs = SameFrames /\ call = NoCall

Next ==
    \/ \E val \in SearchTexts : MyOnSearchClick(val)
    \/ \E inds \in IndexLists : MyNewTazSelectionChange(inds)
    \/ \E inds \in IndexLists : MyBlocksSelectionChange(inds)
    \/ \E val \in SearchTexts : VizOnTextInputChange(val)
    \/ VizOnSearchClick
    \/ \E inds \in IndexLists : VizNewTazSelectionChange(inds)
    \/ \E inds \in IndexLists : VizBlocksSelectionChange(inds)
    \/ OnMatchZoomClick
    \/ \E p \in PanPanels : PanZoom(p)

Spec == Init /\ [][Next]_vars

\* the decomposition helpers on their own: a frame is given, the helper of the
\* program is called on it once
InitDecompose ==
    /\ InitApp
    /\ crs = SameFrames
    /\ \E f \in Frames : call = [NoCall EXCEPT !.gdf_in = f, !.gdf = f]

NextDecompose ==
    \/ \E e \in EnsureChoices : CallGdfToCdsPolygons(e)
    \/ \E e \in EnsureChoices : CallSplitMultipolygonsToCds(e)

SpecDecompose == InitDecompose /\ [][NextDecompose]_vars

\* the spatial filter on its own: it is applied to a collection and a
\* reference geometry, and once more to what it returned
InitFilter == Init

NextFilter ==
    \/ \E C \in Frames, R \in Regions : CallIntersecting(C, R)
    \/ \E C \in Frames, R \in Regions \ {{}}, radius \in Radii :
          CallIntersectingBuffer(C, R, radius)

SpecFilter == InitFilter /\ [][NextFilter]_vars

\* viztaz_4_panel: the figure of compare_taz_blocks, its four axes with the
\* limits the plots left them, then the events of the window
InitLink ==
    /\ app = "viztaz_4_panel"
    /\ ranges \in [Panels -> AxesLimits]
    /\ InitSources
    /\ crs = SameFrames
    /\ call = NoCall

NextLink ==
    \/ \E name \in MplEvents, inaxes \in Panels \cup {"None"} : SyncAxes(name, inaxes)
    \/ \E ax \in Panels, lim \in AxesLimits : ToolbarMove(ax, lim)

SpecLink == InitLink /\ [][NextLink]_vars

\* searches and selections, the selections with the index lists of
\* SelectionLists
InitSelect == Init

NextSelect ==
    \/ \E val \in SearchTexts : MyOnSearchClick(val)
    \/ \E inds \in SelectionLists : MyNewTazSelectionChange(inds)
    \/ \E inds \in SelectionLists : MyBlocksSelectionChange(inds)
    \/ \E val \in SearchTexts : VizOnTextInputChange(val)
    \/ VizOnSearchClick
    \/ \E inds \in SelectionLists : VizNewTazSelectionChange(inds)
    \/ \E inds \in SelectionLists : VizBlocksSelectionChange(inds)

SpecSelect == InitSelect /\ [][NextSelect]_vars

\* viztaz_app with its second search box: searches, fine-zone selections and
\* the extra-zone search
InitExtra == Init /\ app = "viztaz_app"

NextExtra ==
    \/ \E val \in SearchTexts : VizOnTextInputChange(val)
    \/ VizOnSearchClick
    \/ \E inds \in IndexLists : VizNewTazSelectionChange(inds)
    \/ \E val \in ExtraTexts : EditExtraTazInput(val)
    \/ OnExtraSearchClick
    \/ OnExtraValueInput

SpecExtra == InitExtra /\ [][NextExtra]_vars

\* the searches of a session whose shapefiles are in any of the frames
InitFrames == InitApp /\ crs \in FrameChoices /\ call = NoCall

NextFrames ==
    \/ \E val \in SearchTexts : MyOnSearchClick(val)
    \/ \E val \in SearchTexts : VizOnTextInputChange(val)
    \/ VizOnSearchClick

SpecFrames == InitFrames /\ [][NextFrames]_vars

-----------------------------------------------------------------------------
(* What the layers are expected to hold, stated from the shapefiles         *)

ProjPts(S) == {Proj(p) : p \in S}

\* the identifiers of the coarse zones
CoarseIds == {shp_old_taz.rows[i].id.v : i \in 1..Len(shp_old_taz.rows)}

\* the geometry of the coarse zone(s) with identifier n
CoarseGeometry(n) ==
    UNION {Geom(shp_old_taz.rows[i]) :
             i \in {j \in 1..Len(shp_old_taz.rows) : shp_old_taz.rows[j].id.v = n}}

\* the (part) positions of a sequence of records
PartsOf(recs) == UNION {{<<i, j>> : j \in 1..Len(recs[i].parts)} : i \in 1..Len(recs)}

\* row is the sub-polygon of part j of record r, with the columns asked for
IsSubPolygon(row, r, j, cols, ensure_cols) ==
    /\ row.id = Str(r.id)
    /\ row.ring = r.parts[j]
    /\ \A c \in ensure_cols : row.attrs[c] = (IF c \in cols THEN r.attrs[c] ELSE NoneV)

\* layer is the decomposition of the records recs: one row for every part of
\* every record, and no other row
IsDecomposition(layer, recs, cols, ensure_cols) ==
    /\ Len(layer) = Cardinality(PartsOf(recs))
    /\ \A pr \in PartsOf(recs) : \E k \in 1..Len(layer) :
           IsSubPolygon(layer[k], recs[pr[1]], pr[2], cols, ensure_cols)
    /\ \A k \in 1..Len(layer) : \E pr \in PartsOf(recs) :
           IsSubPolygon(layer[k], recs[pr[1]], pr[2], cols, ensure_cols)

\* the records of a shapefile that lie in the set keep, in the display frame
Kept(shp, keep) ==
    latlon_to_web_mercator(
        [shp EXCEPT !.rows = SelectSeq(shp.rows, LAMBDA r : r \in keep)]).rows

\* the last handler was a search that found its coarse zone
SearchFound == event = "search" /\ search_status.kind = "found"

\* the record's geometry shares a point with the coarse zone's geometry
TouchesCoarse(r, n) == Geom(r) \cap CoarseGeometry(n) # {}

\* the record's geometry comes within buffer_radius of the centroid of the
\* coarse zone
NearCentroid(r, n) ==
    \E p \in ProjPts(Geom(r)) :
        InBuffer(p, Centroid(ProjPts(CoarseGeometry(n))), buffer_radius)

\* the records of a shapefile near the coarse zone n, under a filter policy:
\* "geometry" (intersect the zone) or "buffer" (intersect the disc around its
\* centroid)
Near(shp, n, policy) ==
    {shp.rows[i] : i \in {j \in 1..Len(shp.rows) :
        IF policy = "geometry" THEN TouchesCoarse(shp.rows[j], n)
        ELSE NearCentroid(shp.rows[j], n)}}

\* the policy each program filters with
Reference(a) == IF a = "my_app" THEN "geometry" ELSE "buffer"

\* the coarse zone(s) with identifier n
Zone(n) == {shp_old_taz.rows[i] : i \in {j \in 1..Len(shp_old_taz.rows) :
                                          shp_old_taz.rows[j].id.v = n}}

\* the three layers hold the coarse zone n, and the fine zones and the
\* micro-units near it under the policy
LayersOf(n, policy) ==
    /\ IsDecomposition(old_taz_source, Kept(shp_old_taz, Zone(n)), {}, {})
    /\ IsDecomposition(new_taz_source, Kept(shp_new_taz, Near(shp_new_taz, n, policy)),
                       shp_new_taz.cols, EnsureCols(app))
    /\ IsDecomposition(blocks_source, Kept(shp_blocks, Near(shp_blocks, n, policy)),
                       shp_blocks.cols, EnsureCols(app))

-----------------------------------------------------------------------------
(* Claims *)

\* C1 (as claimed): in my_app, after a selection event on the New TAZ layer
\* with a non-empty list of valid indices, the blocks layer is the
\* decomposition of the pool's blocks that intersect the union of the
\* geometries of the selected fine zones.
C1_SelectionCascades ==
    (/\ app = "my_app"
     /\ event = "new_taz_selection"
     /\ new_sel # <<>>
     /\ raised = "none"
     /\ global_blocks_web.some /\ global_new_web.some)
    => LET sel_ids == {new_taz_source[new_sel[k] + 1].id : k \in DOMAIN new_sel}
           Selected(r) == Str(r.id) \in sel_ids
           union_poly == UNION {Geom(r) : r \in {global_new_web.rows[i] :
                             i \in {j \in 1..Len(global_new_web.rows) :
                                      Selected(global_new_web.rows[j])}}}
           Hit(r) == Geom(r) \cap union_poly # {}
       IN  IsDecomposition(blocks_source, SelectSeq(global_blocks_web.rows, Hit),
                           global_blocks_web.cols, Cols19)

\* C2: in my_app, when the New TAZ selection becomes empty after a search, the
\* blocks layer is the decomposition of the whole post-search pool, and the
\* New TAZ table and sums are cleared.
C2_ClearRestoresPool ==
    (/\ app = "my_app"
     /\ event = "new_taz_selection"
     /\ new_sel = <<>>
     /\ global_blocks_web.some)
    => /\ IsDecomposition(blocks_source, global_blocks_web.rows,
                          global_blocks_web.cols, Cols19)
       /\ new_taz_table_source = <<>>
       /\ new_taz_sum_div = Zeros(Cols19)

C2_Witness ==
    /\ app = "my_app"
    /\ event = "new_taz_selection"
    /\ new_sel = <<>>
    /\ global_blocks_web.some
    /\ Len(blocks_source) >= 2

\* C3: once a search has succeeded, the parent identifiers in the blocks layer
\* are among those of the layer the search computed (the decomposition of the
\* pool it kept).
C3_CascadeContainment ==
    global_blocks_web.some
    => {blocks_source[k].id : k \in 1..Len(blocks_source)}
         \subseteq {Str(global_blocks_web.rows[i].id) : i \in 1..Len(global_blocks_web.rows)}

C3_Witness ==
    /\ global_blocks_web.some
    /\ event = "new_taz_selection"
    /\ new_sel # <<>>
    /\ raised = "none"
    /\ blocks_source # <<>>
    /\ Len(global_blocks_web.rows) < Len(shp_blocks.rows)

\* C4 (as claimed): after a search that finds its coarse zone, the layers hold
\* the zone, and the fine zones and blocks that intersect the zone's geometry.
C4_FilterByZoneGeometry ==
    SearchFound => LayersOf(search_status.n, "geometry")

\* C4 (amended): ... the fine zones and blocks that intersect the zone's
\* geometry in my_app, and those that intersect the 1 km buffer around the
\* centroid of the zone in viztaz_app.
C4_FilterByReference ==
    SearchFound => LayersOf(search_status.n, Reference(app))

C4_Witness ==
    /\ SearchFound
    /\ app = "viztaz_app"
    /\ new_taz_source # <<>>
    /\ blocks_source # <<>>
    /\ ~LayersOf(search_status.n, "geometry")

\* C5 (as claimed): after every search event both selections are empty.
C5_EverySearchClears ==
    event = "search" => new_sel = <<>> /\ blocks_sel = <<>>

\* C5 (amended): after every search that finds its coarse zone both selections
\* are empty, whatever they held before the search.
C5_SearchClears ==
    SearchFound => new_sel = <<>> /\ blocks_sel = <<>>

C5_Witness ==
    /\ SearchFound
    /\ new_sel = <<>> /\ blocks_sel = <<>>
    /\ new_taz_source # <<>>

\* C6: in every state the three layers come from one search: all are empty, or
\* for one coarse zone n the coarse and fine layers are the ones a search for n
\* gives and every row of the blocks layer is a row a search for n gives.
C6_LayersFromOneSearch ==
    \/ old_taz_source = <<>> /\ new_taz_source = <<>> /\ blocks_source = <<>>
    \/ \E n \in CoarseIds :
         LET blocks_n == Kept(shp_blocks, Near(shp_blocks, n, Reference(app)))
         IN  /\ IsDecomposition(old_taz_source, Kept(shp_old_taz, Zone(n)), {}, {})
             /\ IsDecomposition(new_taz_source,
                                Kept(shp_new_taz, Near(shp_new_taz, n, Reference(app))),
                                shp_new_taz.cols, EnsureCols(app))
             /\ \A k \in 1..Len(blocks_source) : \E pr \in PartsOf(blocks_n) :
                    IsSubPolygon(blocks_source[k], blocks_n[pr[1]], pr[2],
                                 shp_blocks.cols, EnsureCols(app))

C6_Witness ==
    /\ event = "search"
    /\ search_status.kind = "not_found"
    /\ old_taz_source # <<>>
    /\ blocks_source # <<>>

\* C7 (as claimed): a search for an integer that matches no coarse zone reports
\* not found, raises nothing and leaves the three layers empty.
C7_NotFoundClearsLayers ==
    (/\ event = "search"
     /\ ParseInt(Strip(text_input)).ok
     /\ ParseInt(Strip(text_input)).v \notin CoarseIds)
    => /\ search_status.kind = "not_found"
       /\ raised = "none"
       /\ old_taz_source = <<>> /\ new_taz_source = <<>> /\ blocks_source = <<>>

\* C8 (as claimed): a search whose text is not an integer changes the status
\* and nothing else.
C8_InvalidInputNoChange ==
    [][(/\ event' = "search"
        /\ Strip(text_input') # <<>>
        /\ ~ParseInt(Strip(text_input')).ok)
       => /\ search_status'.kind \in {"invalid", "not_found"}
          /\ UNCHANGED <<layerVars, mirrorVars, poolVars, new_sel, blocks_sel,
                         newAggVars, blocksAggVars, ranges>>]_vars

\* C9 (as claimed): no selection handler ever raises, whatever indices the
\* event carries.
C9_StaleIndexSilent ==
    event \in {"new_taz_selection", "blocks_selection"} => raised = "none"

\* C10: a selection event on the blocks layer changes the blocks table and
\* sums (and the blocks selection) only.
C10_BlocksSelectionFrame ==
    [][event' = "blocks_selection"
       => UNCHANGED <<layerVars, mirrorVars, poolVars, new_sel, newAggVars, ranges,
                      search_status, text_input>>]_vars

C10_Witness ==
    /\ event = "blocks_selection"
    /\ raised = "none"
    /\ blocks_sel # <<>>
    /\ Len(blocks_table_source) >= 1
    /\ new_sel # <<>>
    /\ new_taz_table_source # <<>>

-----------------------------------------------------------------------------
(* What the aggregation is expected to report *)

\* the last handler was a selection callback that ran to its end
SelectionDone == event \in {"new_taz_selection", "blocks_selection"} /\ raised = "none"

\* the selection, the table and the sums of the layer whose callback ran last
LastSel   == IF event = "blocks_selection" THEN blocks_sel ELSE new_sel
LastTable == IF event = "blocks_selection" THEN blocks_table_source
             ELSE new_taz_table_source
LastSums  == IF event = "blocks_selection" THEN blocks_sum_div ELSE new_taz_sum_div

\* the rows of the selected sub-polygons: in viztaz_app the table without its
\* last row, the total row
DataRows(table) ==
    IF app = "my_app" THEN table ELSE SubSeq(table, 1, Len(table) - 1)

\* the sum a table reports for column c: the text under the table in my_app,
\* the total row in viztaz_app
Reported(table, sums, c) ==
    IF app = "my_app" THEN sums[c] ELSE table[Len(table)].attrs[c]

\* the rows with one row kept for every parent identifier
RECURSIVE OncePerParent(_)
OncePerParent(rows) ==
    IF rows = <<>> THEN <<>>
    ELSE LET before == OncePerParent(SubSeq(rows, 1, Len(rows) - 1))
             last   == rows[Len(rows)]
         IN  IF \E k \in 1..Len(before) : before[k].id = last.id THEN before
             ELSE Append(before, last)

\* the sum of the integer values of column c, anything else left out
RECURSIVE NumericSum(_, _)
NumericSum(rows, c) ==
    IF rows = <<>> THEN IntV(0)
    ELSE LET s   == NumericSum(Tail(rows), c)
             val == Head(rows).attrs[c]
         IN  IF val.k = "int" THEN IntV(s.v + val.v) ELSE s

\* C11 (as claimed): after a selection callback on a non-empty selection, every
\* reported sum counts each parent identifier among the selected sub-polygons
\* once.
C11_ParentCountedOnce ==
    (SelectionDone /\ LastSel # <<>>)
    => \A c \in EnsureCols(app) :
           Reported(LastTable, LastSums, c)
             = SumValues(OncePerParent(DataRows(LastTable)), c)

\* C12 (as claimed): after a selection callback on a non-empty selection, every
\* reported sum is the sum of the numeric values of the selected sub-polygons,
\* null values left out of it.
C12_SumIgnoresNull ==
    (SelectionDone /\ LastSel # <<>>)
    => \A c \in EnsureCols(app) :
           Reported(LastTable, LastSums, c) = NumericSum(DataRows(LastTable), c)

\* C13: after a selection callback on an empty selection, my_app shows an
\* empty table and sums that are all zero, and viztaz_app shows a table of
\* exactly one row, the total row "Sum", with sums that are all zero.
C13_EmptySelectionAggregates ==
    (SelectionDone /\ LastSel = <<>>)
    => IF app = "my_app"
       THEN LastTable = <<>> /\ LastSums = Zeros(Cols19)
       ELSE /\ Len(LastTable) = 1
            /\ LastTable[1].id = SumId
            /\ \A c \in AllCols : LastTable[1].attrs[c] = IntV(0)

C13_Witness ==
    /\ SelectionDone
    /\ LastSel = <<>>
    /\ app = "viztaz_app"
    /\ new_taz_source # <<>>
    /\ Len(LastTable) = 1

\* the table holds exactly one row with identifier "Sum", and it is the last
HasOneTotalRowLast(table) ==
    /\ table # <<>>
    /\ table[Len(table)].id = SumId
    /\ \A k \in 1..(Len(table) - 1) : table[k].id # SumId

\* C14 (as claimed): in viztaz_app each table holds exactly one total row
\* "Sum", as its last row, in every reachable state, the initial one included.
C14_TotalRowAlways ==
    app = "viztaz_app"
    => HasOneTotalRowLast(new_taz_table_source) /\ HasOneTotalRowLast(blocks_table_source)

-----------------------------------------------------------------------------
(* Viewports *)

\* C15: "Match 1st Panel Zoom" gives panels 2, 3 and 4 the bounds panel 1 has
\* when it runs, and a later pan or zoom of panel 1 leaves the bounds of
\* panels 2, 3 and 4 as they are.
C15_CopyOnce ==
    [][/\ event' = "match_zoom"
          => \A p \in Panels : ranges'[p] = ranges["p_old"]
       /\ event' = "pan"
          => \A p \in Panels \ {"p_old"} : ranges'[p] = ranges[p]]_vars

C15_Witness ==
    /\ event = "pan"
    /\ app = "my_app"
    /\ ~ranges["p_new"].auto
    /\ ranges["p_new"] = ranges["p_blocks"]
    /\ ranges["p_old"] = UserRange
    /\ ranges["p_new"] # UserRange

\* the bounding box of a set of points
BoundsOf(pts) ==
    [minx |-> Min({p[1] : p \in pts}), miny |-> Min({p[2] : p \in pts}),
     maxx |-> Max({p[1] : p \in pts}), maxy |-> Max({p[2] : p \in pts})]

\* v is the viewport expected for the coarse zone n: its bounding box with 5%
\* of the extent added on each side, or 1000 units when the box has no width
\* or no height
SearchViewport(v, n) ==
    LET b  == BoundsOf(ProjPts(CoarseGeometry(n)))
        dx == b.maxx - b.minx
        dy == b.maxy - b.miny
    IN  /\ ~v.auto
        /\ IF dx = 0 \/ dy = 0
           THEN /\ v.xs = b.minx - 1000 /\ v.xe = b.maxx + 1000
                /\ v.ys = b.miny - 1000 /\ v.ye = b.maxy + 1000
           ELSE /\ 100 * (b.minx - v.xs) = 5 * dx /\ 100 * (v.xe - b.maxx) = 5 * dx
                /\ 100 * (b.miny - v.ys) = 5 * dy /\ 100 * (v.ye - b.maxy) = 5 * dy
        /\ v.xs <= b.minx /\ b.maxx <= v.xe
        /\ v.ys <= b.miny /\ b.maxy <= v.ye
        /\ v.xs < v.xe /\ v.ys < v.ye

\* C16: after a search that finds its zone, the viewport of panel 1 is the
\* zone's bounding box widened by 5% of its extent on each side, or by 1000
\* units when the box is degenerate; it contains the box and has positive
\* width and height.
C16_SearchViewport ==
    SearchFound => SearchViewport(ranges["p_old"], search_status.n)

C16_Witness ==
    /\ SearchFound
    /\ LET b == BoundsOf(ProjPts(CoarseGeometry(search_status.n)))
       IN  b.miny = b.maxy /\ b.minx < b.maxx
    /\ ranges["p_old"].ye - ranges["p_old"].ys = 2000

\* C17: in viztaz_app a search that finds its zone leaves all four panels
\* with the same bounds, those computed for the zone, and a search that fails
\* leaves the bounds of every panel as they were.
C17_VizSearchViewports ==
    [][(app = "viztaz_app" /\ event' = "search")
       => IF search_status'.kind = "found"
          THEN \A p \in Panels :
                   /\ ranges'[p] = ranges'["p_old"]
                   /\ SearchViewport(ranges'[p], search_status'.n)
          ELSE ranges' = ranges]_vars

C17_Witness ==
    /\ app = "viztaz_app"
    /\ event = "search"
    /\ search_status.kind = "not_found"
    /\ ranges["p_old"] = UserRange
    /\ ~ranges["p_new"].auto
    /\ ranges["p_new"] # ranges["p_old"]

-----------------------------------------------------------------------------
(* Decomposition of a frame into sub-polygon rows *)

\* a decomposition helper has returned
Decomposed == call.fn # "none"

\* the records of the frame given that have a geometry, and it is not empty
NonEmptyRecords ==
    {i \in 1..Len(call.gdf_in.rows) :
        call.gdf_in.rows[i].gtype # "None" /\ Geom(call.gdf_in.rows[i]) # {}}

\* the rows of the result that carry the identifier of record i
RowsOf(i) ==
    {k \in 1..Len(call.data.id) : call.data.id[k] = Str(call.gdf_in.rows[i].id)}

\* C18: the result has at least as many sub-polygons as the frame has records
\* with a non-empty geometry, the parent identifiers in the result are exactly
\* the identifiers of those records, and records without a geometry or with an
\* empty one contribute nothing
C18_RoundTrip ==
    Decomposed =>
        /\ Len(call.data.id) >= Cardinality(NonEmptyRecords)
        /\ {call.data.id[k] : k \in 1..Len(call.data.id)}
             = {Str(call.gdf_in.rows[i].id) : i \in NonEmptyRecords}
        /\ \A i \in (1..Len(call.gdf_in.rows)) \ NonEmptyRecords : RowsOf(i) = {}

C18_Witness ==
    /\ Decomposed
    /\ \E i, j, m \in 1..Len(call.gdf_in.rows) :
          /\ call.gdf_in.rows[i].gtype = "None"
          /\ call.gdf_in.rows[j].gtype = "Polygon" /\ Geom(call.gdf_in.rows[j]) = {}
          /\ call.gdf_in.rows[m].gtype = "MultiPolygon"
    /\ Len(call.data.id) > Cardinality(NonEmptyRecords)

\* C19: a Polygon record gives one sub-polygon and a MultiPolygon record one per
\* part; each of them has the outline of its part, the identifier of its record
\* and the record's value of every requested column
C19_OnePerPart ==
    Decomposed =>
        \A i \in NonEmptyRecords :
            LET r == call.gdf_in.rows[i]
            IN  /\ Cardinality(RowsOf(i)) =
                       IF r.gtype = "Polygon" THEN 1 ELSE Len(r.parts)
                /\ {<<call.data.xs[k], call.data.ys[k]>> : k \in RowsOf(i)}
                     = {<<Xs(r.parts[j]), Ys(r.parts[j])>> : j \in 1..Len(r.parts)}
                /\ \A k \in RowsOf(i) :
                      \A c \in call.ensure_cols \cap call.gdf_in.cols :
                          call.data.attrs[c][k] = r.attrs[c]

C19_Witness ==
    /\ Decomposed
    /\ "HH19" \in call.ensure_cols \cap call.gdf_in.cols
    /\ \E i, j \in NonEmptyRecords :
          /\ call.gdf_in.rows[i].gtype = "Polygon"
          /\ call.gdf_in.rows[j].gtype = "MultiPolygon"
          /\ Cardinality(RowsOf(j)) = 2
          /\ \A k \in RowsOf(j) : call.data.attrs["HH19"][k] = IntV(10 * j)

\* the parts of the frame's records, as <<record, part>>, in record order and
\* within a record in part order
RECURSIVE PartsInOrder(_)
PartsInOrder(n) ==
    IF n = 0 THEN <<>>
    ELSE PartsInOrder(n - 1) \o
         (IF n \in NonEmptyRecords
          THEN [j \in 1..Len(call.gdf_in.rows[n].parts) |-> <<n, j>>]
          ELSE <<>>)

\* C20: the sub-polygons come in the order of the records and, within a record,
\* in the order of its parts; the columns xs, ys, id and every requested column
\* have the same length
C20_OrderAndColumns ==
    Decomposed =>
        LET order == PartsInOrder(Len(call.gdf_in.rows))
        IN  /\ Len(call.data.id) = Len(order)
            /\ Len(call.data.xs) = Len(call.data.id)
            /\ Len(call.data.ys) = Len(call.data.id)
            /\ DOMAIN call.data.attrs = call.ensure_cols
            /\ \A c \in call.ensure_cols : Len(call.data.attrs[c]) = Len(call.data.id)
            /\ \A k \in 1..Len(order) :
                  LET r == call.gdf_in.rows[order[k][1]]
                  IN  /\ call.data.id[k] = Str(r.id)
                      /\ call.data.xs[k] = Xs(r.parts[order[k][2]])
                      /\ call.data.ys[k] = Ys(r.parts[order[k][2]])

C20_Witness ==
    /\ Decomposed
    /\ call.ensure_cols = {"HH19", "EMP19"}
    /\ Len(call.gdf_in.rows) = 3
    /\ call.gdf_in.rows[1].gtype = "MultiPolygon"
    /\ call.gdf_in.rows[2].gtype = "None"
    /\ call.gdf_in.rows[3].gtype = "MultiPolygon"
    /\ call.data.id = <<Str(IntId(1)), Str(IntId(1)), Str(IntId(3)), Str(IntId(3))>>
    /\ Len(call.data.attrs["EMP19"]) = 4

\* C21: for a requested column that the frame given does not have, every
\* sub-polygon carries None, never a number
C21_AbsentIsNull ==
    Decomposed =>
        \A c \in call.ensure_cols \ call.gdf_in.cols :
            /\ Len(call.data.attrs[c]) = Len(call.data.id)
            /\ \A k \in 1..Len(call.data.attrs[c]) : call.data.attrs[c][k] = NoneV

C21_Witness ==
    /\ Decomposed
    /\ call.gdf_in.cols = {"HH19"}
    /\ call.ensure_cols = {"HH19", "EMP19"}
    /\ Len(call.data.id) >= 2
    /\ call.data.attrs["EMP19"][1] = NoneV
    /\ call.data.attrs["HH19"][1] # NoneV

-----------------------------------------------------------------------------
(* Parent identifiers *)

\* the identifiers of a shapefile are unique
UniqueIds(shp) ==
    \A i, j \in 1..Len(shp.rows) : shp.rows[i].id = shp.rows[j].id => i = j

\* every row of the layer names exactly one record of the collection
Resolves(layer, shp) ==
    \A k \in 1..Len(layer) :
        Cardinality({i \in 1..Len(shp.rows) : Str(shp.rows[i].id) = layer[k].id}) = 1

\* C22: the identifiers of the shapefiles being unique, every sub-polygon of
\* every layer names exactly one record of the collection the layer was
\* decomposed from
C22_ParentResolves ==
    UniqueIds(shp_old_taz) /\ UniqueIds(shp_new_taz) /\ UniqueIds(shp_blocks) =>
        /\ Resolves(old_taz_source, shp_old_taz)
        /\ Resolves(combined_old_source, shp_old_taz)
        /\ Resolves(old_taz_neighbors_source, shp_old_taz)
        /\ Resolves(new_taz_source, shp_new_taz)
        /\ Resolves(combined_new_source, shp_new_taz)
        /\ Resolves(blocks_source, shp_blocks)
        /\ Resolves(old_taz_blocks_source, shp_blocks)
        /\ Resolves(new_taz_blocks_source, shp_blocks)
        /\ Resolves(combined_blocks_source, shp_blocks)

C22_Witness ==
    /\ UniqueIds(shp_old_taz) /\ UniqueIds(shp_new_taz) /\ UniqueIds(shp_blocks)
    /\ event = "new_taz_selection"
    /\ \E j, k \in 1..Len(new_taz_source) :
          j # k /\ new_taz_source[j].id = new_taz_source[k].id
    /\ \E j, k \in 1..Len(blocks_source) :
          blocks_source[j].id # blocks_source[k].id
    /\ old_taz_source # <<>>

-----------------------------------------------------------------------------
(* Searches after searches *)

\* the values the callbacks find before any event
InitialSnapshot(a) ==
    [new |-> <<>>, blocks |-> <<>>, new_table |-> <<>>, blocks_table |-> <<>>,
     new_sum |-> IF a = "my_app" THEN Zeros(Cols19) ELSE Zeros({}),
     blocks_sum |-> IF a = "my_app" THEN Zeros(Cols19) ELSE Zeros({}),
     pool_new |-> NoneGdf, pool_blocks |-> NoneGdf, raised |-> "none"]

\* the layers, pools and selections that a search for zone n leaves when it is
\* the first event of the session
FirstSearch(a, n) ==
    IF a = "my_app"
    THEN LET r == my_search[crs][n]
         IN  [old |-> r.old_temp, new |-> r.new_temp,
              blocks |-> SearchBlocksData(r.f, InitialSnapshot(a)),
              old_blocks |-> r.old_blocks_temp, new_blocks |-> r.old_blocks_temp,
              combined_old |-> r.old_temp, combined_new |-> r.new_temp,
              combined_blocks |-> r.old_blocks_temp,
              buffer |-> <<>>, neighbors |-> <<>>, old_text |-> <<>>, new_text |-> <<>>,
              pool_new |-> r.new_web, pool_blocks |-> r.blocks_web,
              new_sel |-> <<>>, blocks_sel |-> <<>>]
    ELSE LET r == viz_search[crs][n]
         IN  [old |-> r.old_temp, new |-> r.new_temp, blocks |-> r.blocks_temp,
              old_blocks |-> r.old_blocks_temp, new_blocks |-> r.old_blocks_temp,
              combined_old |-> r.old_temp, combined_new |-> r.new_temp,
              combined_blocks |-> r.old_blocks_temp,
              buffer |-> r.buffer, neighbors |-> r.neighbors_temp,
              old_text |-> r.old_text_data, new_text |-> r.new_text_data,
              pool_new |-> r.n, pool_blocks |-> r.b,
              new_sel |-> <<>>, blocks_sel |-> <<>>]

\* the layers, pools and selections now
LayerStore ==
    [old |-> old_taz_source, new |-> new_taz_source, blocks |-> blocks_source,
     old_blocks |-> old_taz_blocks_source, new_blocks |-> new_taz_blocks_source,
     combined_old |-> combined_old_source, combined_new |-> combined_new_source,
     combined_blocks |-> combined_blocks_source,
     buffer |-> old_taz_buffer_source, neighbors |-> old_taz_neighbors_source,
     old_text |-> old_taz_text_source, new_text |-> new_taz_text_source,
     pool_new |-> global_new_web, pool_blocks |-> global_blocks_web,
     new_sel |-> new_sel, blocks_sel |-> blocks_sel]

\* C23: after a search that found its zone, the layers, the pools and the
\* selections are those that the same search leaves as the first event of the
\* session, whatever searches and selections came before
C23_LastWriteWins ==
    SearchFound => LayerStore = FirstSearch(app, search_status.n)

\* a search for zone 3 after a search for another zone, whose viewport the
\* other panels still have
C23_Witness ==
    /\ SearchFound
    /\ search_status.n = 3
    /\ ranges["p_old"] = my_search[crs][3].zoom
    /\ ranges["p_new"] = my_search[crs][1].zoom
    /\ global_blocks_web.some

-----------------------------------------------------------------------------
(* Reference frames *)

\* the frames of the collections that the program's spatial filter compares
FilterFrames(a, tags) == [f \in {"old", "new", "blocks"} |-> Loaded(a, tags)[f].crs]

\* the zone geometry and a candidate collection are tagged differently
Mismatched(a, tags) ==
    \E f \in {"new", "blocks"} : FilterFrames(a, tags)[f] # FilterFrames(a, tags)["old"]

\* C24: a search whose spatial filter meets a candidate collection tagged with
\* another frame than the zone geometry ends with ReferenceFrameMismatch and
\* leaves the layers, pools and selections as they were
C24_FrameMismatchAborts ==
    [][(/\ event' = "search"
        /\ ParseInt(Strip(text_input')).ok
        /\ ParseInt(Strip(text_input')).v \in CoarseIds
        /\ Mismatched(app, crs))
       => /\ raised' = "ReferenceFrameMismatch"
          /\ LayerStore' = LayerStore]_vars

-----------------------------------------------------------------------------
(* The spatial filter *)

\* the collections a filter may be given: the frames of the decomposition
\* checks and the three shapefiles
Candidates == Frames \cup {shp_old_taz, shp_new_taz, shp_blocks}

\* filtering against the union of no geometry keeps no record
EmptyUnionKeepsNothing ==
    \A C \in Candidates : Intersecting(C, UnaryUnion(<<>>)).rows = <<>>

\* C25 (as claimed): filtering against the union of no geometry keeps nothing,
\* and a New TAZ selection that names no fine zone leaves the blocks layer
\* empty
C25_EmptyUnionEmptiesLayer ==
    /\ EmptyUnionKeepsNothing
    /\ (event = "new_taz_selection" /\ new_sel = <<>> /\ raised = "none")
          => blocks_source = <<>>

\* C25 (amended): filtering against the union of no geometry keeps nothing; in
\* my_app a New TAZ selection that names no fine zone, the empty one, leaves
\* the blocks layer with the whole pool of the last search, and empty before
\* any search
C25_EmptyUnionRestoresPool ==
    /\ EmptyUnionKeepsNothing
    /\ (app = "my_app" /\ event = "new_taz_selection" /\ new_sel = <<>>)
          => IF global_blocks_web.some
             THEN IsDecomposition(blocks_source, global_blocks_web.rows,
                                  global_blocks_web.cols, Cols19)
             ELSE blocks_source = <<>>

C25_Witness ==
    /\ app = "my_app"
    /\ event = "new_taz_selection"
    /\ new_sel = <<>>
    /\ search_status.kind = "found" /\ search_status.n = 1
    /\ Len(blocks_source) = Len(gdf_to_cds_polygons(global_blocks_web, Cols19))
    /\ blocks_source # <<>>

\* the filter has returned
Filtered == call.fn \in {"intersects", "intersects_buffer"}

\* C26: filtering the result of the filter against the same reference geometry
\* returns the same records in the same order
C26_FilterIdempotent ==
    Filtered => call.twice.rows = call.once.rows /\ call.twice = call.once

C26_Witness ==
    /\ call.fn = "intersects"
    /\ call.region # {}
    /\ Len(call.once.rows) = 2
    /\ Len(call.gdf_in.rows) = 3
    /\ call.twice.rows = call.once.rows

-----------------------------------------------------------------------------
(* The text of the search box *)

\* the text searched is not an integer
NotAnInteger == ~ParseInt(Strip(text_input)).ok

\* C27: a search for a text that is not an integer ends without an exception
\* and with a status that says so, which is not the status of a zone found
C27_NonIntegerIsStatus ==
    (event = "search" /\ NotAnInteger)
    => /\ raised = "none"
       /\ search_status.kind \in {"invalid", "not_found", "no_input"}
       /\ \A n \in CoarseIds : search_status # Status("found", n, <<>>)

C27_Witness ==
    /\ event = "search"
    /\ Strip(text_input) = <<"a">>
    /\ search_status.kind \in {"invalid", "not_found"}
    /\ old_taz_source # <<>>

\* no search has found a zone yet: every layer is empty, nothing is selected
\* and no pool is set
Idle ==
    /\ \A f \in {"old", "new", "blocks", "old_blocks", "new_blocks", "combined_old",
                 "combined_new", "combined_blocks", "buffer", "neighbors",
                 "old_text", "new_text", "new_sel", "blocks_sel"} : LayerStore[f] = <<>>
    /\ ~global_new_web.some /\ ~global_blocks_web.some

\* C28: a search, made while idle, for an integer that is no coarse zone leaves
\* the session idle and reports that the zone was not found
C28_NotFoundStaysIdle ==
    [][(/\ Idle
        /\ event' = "search"
        /\ ParseInt(Strip(text_input')).ok
        /\ ParseInt(Strip(text_input')).v \notin CoarseIds)
       => /\ Idle'
          /\ search_status'.kind = "not_found"
          /\ raised' = "none"]_vars

C28_Witness ==
    /\ Idle
    /\ event = "search"
    /\ Strip(text_input) = <<"9">>
    /\ search_status.kind = "not_found"

-----------------------------------------------------------------------------
(* The collection a helper is given *)

\* C29: a filter or a decomposition leaves the collection it was given as it
\* was: no record changed, no column added, also when the decomposition is
\* asked for columns the collection does not have
C29_InputUnchanged ==
    (Decomposed \/ Filtered) => call.gdf = call.gdf_in

-----------------------------------------------------------------------------
(* viztaz_4_panel: linked viewports *)

\* C30: after a scroll, button-release or pointer-motion event inside a panel,
\* the four panels have the x and y limits that this panel had; an event
\* outside every panel changes no limits
C30_ContinuousLink ==
    [][event' \in MplEvents /\ call'.fn = "sync_axes"
       => IF call'.inaxes \in Panels
          THEN \A ax \in Panels : ranges'[ax] = ranges[call'.inaxes]
          ELSE ranges' = ranges]_vars

C30_Witness ==
    /\ event = "motion_notify_event"
    /\ call.fn = "sync_axes"
    /\ call.inaxes = "p_blocks"
    /\ \A ax \in Panels : ranges[ax] = Limits(2, 6, 3, 5)

-----------------------------------------------------------------------------
(* The cascade and the pool *)

\* the fine-zone selection handler of the running program
SelectNewTaz(inds, st) ==
    IF app = "my_app" THEN registered_new_taz_callback(inds, st)
    ELSE update_new_taz_table(inds, st)

\* C31: the blocks layer after a fine-zone selection A followed by a
\* non-empty selection B is the blocks layer after B alone.  Stated of the
\* handler that runs, for every pair of index lists, and of the cascade of
\* my_app as written (the second new_taz_selection_change with
\* do_new_taz_selection_intersection), for the index lists within the layer.
C31_CascadeFromPool ==
    \A A \in SelectionLists, B \in SelectionLists \ {<<>>} :
        /\ SelectNewTaz(B, SelectNewTaz(A, Snapshot)).blocks
              = SelectNewTaz(B, Snapshot).blocks
        /\ (app = "my_app" /\ ~OutOfRange(A, new_taz_source)
                /\ ~OutOfRange(B, new_taz_source))
             => new_taz_selection_change_2(B, new_taz_selection_change_2(A, Snapshot)).blocks
                  = new_taz_selection_change_2(B, Snapshot).blocks

\* a non-empty fine-zone selection was just handled after a search, and
\* another selection would have cascaded to a narrower, different blocks layer
C31_Witness ==
    /\ app = "my_app"
    /\ event = "new_taz_selection" /\ raised = "none" /\ new_sel # <<>>
    /\ global_blocks_web.some
    /\ \E A \in SelectionLists \ {<<>>} :
          /\ ~OutOfRange(A, new_taz_source)
          /\ Len(new_taz_selection_change_2(A, Snapshot).blocks) < Len(blocks_source)
          /\ new_taz_selection_change_2(A, Snapshot).blocks
                # new_taz_selection_change_2(new_sel, Snapshot).blocks

\* the derived parent-identifier set of an index list: the distinct parent
\* identifiers of the indexed sub-polygons
ParentIds(inds, rows) == {rows[inds[k] + 1].id : k \in DOMAIN inds}

\* C32: two index lists within the fine-zone layer that derive the same set of
\* parent identifiers leave the same blocks layer; of the handler that runs and
\* of the cascade of my_app as written.
C32_DependsOnParentIds ==
    \A A \in SelectionLists, B \in SelectionLists :
        (/\ ~OutOfRange(A, new_taz_source) /\ ~OutOfRange(B, new_taz_source)
         /\ ParentIds(A, new_taz_source) = ParentIds(B, new_taz_source))
        => /\ SelectNewTaz(A, Snapshot).blocks = SelectNewTaz(B, Snapshot).blocks
           /\ app = "my_app"
                => new_taz_selection_change_2(A, Snapshot).blocks
                     = new_taz_selection_change_2(B, Snapshot).blocks

\* both parts of a multi-part fine zone are selected after a search, and the
\* cascade on them narrows the blocks layer
C32_Witness ==
    /\ app = "my_app"
    /\ event = "new_taz_selection" /\ raised = "none"
    /\ Len(new_sel) = 2
    /\ Cardinality(ParentIds(new_sel, new_taz_source)) = 1
    /\ global_blocks_web.some
    /\ new_taz_selection_change_2(new_sel, Snapshot).blocks # <<>>
    /\ Len(new_taz_selection_change_2(new_sel, Snapshot).blocks) < Len(blocks_source)

-----------------------------------------------------------------------------
(* The aggregate table after a selection *)

\* the layer the last selection event was on
SelectedLayer == IF event = "blocks_selection" THEN blocks_source ELSE new_taz_source

\* the sum of column c over the sub-polygons of the layer at the indices
RECURSIVE SumOver(_, _, _)
SumOver(inds, layer, c) ==
    IF inds = <<>> THEN IntV(0)
    ELSE LET val  == layer[Head(inds) + 1].attrs[c]
             rest == SumOver(Tail(inds), layer, c)
         IN  IF IsNumber(val) THEN Plus(rest, val) ELSE rest

\* C33: after a selection event with a non-empty index list within the layer,
\* the layer's table holds one row per selected index, in selection order, each
\* with the identifier and the attribute values of the sub-polygon at that
\* index (in viztaz_app followed by the one row "Sum"), and every reported sum
\* is the sum over those sub-polygons.
C33_TableIsSelection ==
    (SelectionDone /\ LastSel # <<>>)
    => LET rows == DataRows(LastTable)
       IN  /\ Len(rows) = Len(LastSel)
           /\ \A k \in DOMAIN LastSel :
                 /\ rows[k].id = SelectedLayer[LastSel[k] + 1].id
                 /\ rows[k].attrs = [c \in EnsureCols(app) |->
                                        SelectedLayer[LastSel[k] + 1].attrs[c]]
           /\ app = "viztaz_app"
                => /\ Len(LastTable) = Len(LastSel) + 1
                   /\ LastTable[Len(LastTable)].id = SumId
           /\ \A c \in EnsureCols(app) :
                 Reported(LastTable, LastSums, c) = SumOver(LastSel, SelectedLayer, c)

\* in viztaz_app, whose table already held a "Sum" row, row 2 was picked
\* before row 0, two sub-polygons of different parents
C33_Witness ==
    /\ SelectionDone
    /\ app = "viztaz_app"
    /\ LastSel = <<2, 0>>
    /\ LastTable[1].id # LastTable[2].id
    /\ Reported(LastTable, LastSums, "HH19") # IntV(0)

-----------------------------------------------------------------------------
(* Selections and tables against the layers *)

\* the indices are within the layer and the table's data rows are the layer's
\* rows at those indices
Current(sel, layer, table) ==
    /\ \A k \in DOMAIN sel : sel[k] < Len(layer)
    /\ DataRows(table) = TableRows(sel, layer, EnsureCols(app))

\* C34 (as claimed): in every reachable state the selection indices of the
\* fine-zone layer and of the blocks layer are smaller than the length of the
\* layer's current list, and each table's data rows are the rows of the
\* layer's current list at the selected indices.
C34_SelectionsAndTablesCurrent ==
    /\ Current(new_sel, new_taz_source, new_taz_table_source)
    /\ Current(blocks_sel, blocks_source, blocks_table_source)

-----------------------------------------------------------------------------
(* The search run again *)

\* C35: a search handler that runs directly after a search handler, on the
\* same text, leaves layers, outline copies, pools, selections, tables, sums,
\* status, viewports and labels as the first run left them.
C35_SearchIdempotent ==
    [][(event = "search" /\ event' = "search" /\ text_input' = text_input)
       => UNCHANGED <<layerVars, mirrorVars, poolVars, new_sel, blocks_sel, newAggVars,
                      blocksAggVars, search_status, ranges, vizVars, raised>>]_vars

\* viztaz_app after a search that found zone 1: the state the change of the
\* text left, and the click on the button leaves again
C35_Witness ==
    /\ app = "viztaz_app"
    /\ SearchFound
    /\ text_input = <<"1">>
    /\ new_taz_text_source # <<>>
    /\ Len(new_taz_table_source) = 1

-----------------------------------------------------------------------------
(* The combined panel and the block outlines *)

\* the outlines of the blocks of the pool the last successful search kept
PoolOutlines ==
    IF global_blocks_web.some THEN Decompose(app, global_blocks_web, {}) ELSE <<>>

\* C36: in every state a handler leaves, the coarse-zone source of the
\* combined panel equals that of panel 1, its fine-zone source equals that of
\* panel 2, and the block-outline sources of panels 1, 2 and 3 each hold the
\* sub-polygons of the blocks pool of the last successful search.
C36_CombinedMirrors ==
    /\ combined_old_source = old_taz_source
    /\ combined_new_source = new_taz_source
    /\ old_taz_blocks_source = PoolOutlines
    /\ new_taz_blocks_source = old_taz_blocks_source
    /\ combined_blocks_source = old_taz_blocks_source

\* a fine-zone selection was handled after a search that found a zone with
\* fine zones and blocks
C36_Witness ==
    /\ event = "new_taz_selection"
    /\ new_sel # <<>>
    /\ combined_old_source # <<>>
    /\ combined_new_source # <<>>
    /\ combined_blocks_source # <<>>

-----------------------------------------------------------------------------
(* viztaz_app: the extra-zone search *)

\* C37: a run of run_extra_search changes nothing but the extra-highlight
\* layer and its labels: the three layers and their outline copies, the pools,
\* the selections, the tables, the status, the viewports, the buffer, the
\* neighbours, the labels of panels 1 and 2 and both search boxes stay.
C37_ExtraSearchFrame ==
    [][event' = "extra_search"
       => UNCHANGED <<text_input, search_status, layerVars, mirrorVars, poolVars, new_sel,
                      blocks_sel, newAggVars, blocksAggVars, ranges, vizVars,
                      extra_taz_input>>]_vars

\* the extra search drew zones while a search result with labels and a
\* fine-zone selection were on display
C37_Witness ==
    /\ event = "extra_search"
    /\ extra_old_taz_source # <<>>
    /\ old_taz_text_source # <<>>
    /\ new_sel # <<>>
    /\ Len(new_taz_table_source) > 1

\* the texts between the commas of s, stripped, the blank ones left out
Named(s) ==
    {Strip(SubSeq(s, i, j)) : <<i, j>> \in
        {ij \in (1..(Len(s) + 1)) \X (0..Len(s)) :
            /\ ij[2] >= ij[1] - 1
            /\ \A k \in ij[1]..ij[2] : s[k] # ","
            /\ ij[1] = 1 \/ s[ij[1] - 1] = ","
            /\ ij[2] = Len(s) \/ s[ij[2] + 1] = ","}} \ {<<>>}

\* C38: after run_extra_search the extra layer is the decomposition of the
\* coarse zones whose identifier is one of the integers of the list; it and its
\* labels are empty if the text is empty, if a token is not an integer or if
\* no coarse zone is listed; and the polygons and the labels carry the same
\* sequence of identifiers.
C38_ExtraLayer ==
    /\ event = "extra_search"
         => LET names == Named(Strip(extra_taz_input))
                ids   == {ParseInt(x).v : x \in {y \in names : ParseInt(y).ok}}
                none  == \/ Strip(extra_taz_input) = <<>>
                         \/ \E x \in names : ~ParseInt(x).ok
                         \/ ids \cap CoarseIds = {}
                zones == {shp_old_taz.rows[i] : i \in {j \in 1..Len(shp_old_taz.rows) :
                                                        shp_old_taz.rows[j].id.v \in ids}}
            IN  IF none
                THEN extra_old_taz_source = <<>> /\ extra_old_taz_text_source = <<>>
                ELSE IsDecomposition(extra_old_taz_source, Kept(shp_old_taz, zones), {}, {})
    /\ [k \in DOMAIN extra_old_taz_source |-> extra_old_taz_source[k].id]
         = [k \in DOMAIN extra_old_taz_text_source |-> extra_old_taz_text_source[k].id]

\* the list names the two-part zone 3 and zone 1: three sub-polygons
C38_Witness ==
    /\ event = "extra_search"
    /\ extra_taz_input = <<"3", ",", "1">>
    /\ Len(extra_old_taz_source) = 3
    /\ Len(extra_old_taz_text_source) = 3

====
